---- MODULE Spec2Model ----
(***************************************************************************)
(* Token lifecycle and resilient request core of the Spotify playback      *)
(* transfer worker: storage.ts (readTokens, writeTokens), spotify.ts        *)
(* (refreshAccessToken, getAccessToken, spotifyFetch) and index.ts          *)
(* (shouldRetryTransfer, getRetryDelayMs, retryTransfer).                   *)
(*                                                                         *)
(* A request is a JavaScript async call chain.  Code between two awaits    *)
(* runs without interleaving, so one action of the model is one I/O        *)
(* completion (KV get, KV put, token endpoint response, resource API       *)
(* response, timer) followed by the synchronous code up to the next I/O.   *)
(* proc[p].pc names the I/O the request is waiting for and proc[p].stack   *)
(* the return sites of the functions that are suspended on it.             *)
(***************************************************************************)
EXTENDS Integers, Sequences, FiniteSets, TLC

\* ---------------------------------------------------------------- bounds
MaxTicks == 1
MaxIssued == 3
MaxCalls == 2
MaxTransferIssued == 7
MaxFaults == 1

\* the concurrent requests and the wall clock at the start (milliseconds)
Procs == {1}
StartMs == 1000 * 1000
TickSteps == {1000}

\* ------------------------------------------------------- values and helpers
\* null / undefined / absent; a missing or empty string and the number 0 are
\* the falsy value 0
NULL == [null |-> TRUE]

Min(a, b) == IF a <= b THEN a ELSE b

\* JavaScript a || b on strings and numbers
OrElse(a, b) == IF a # 0 THEN a ELSE b

Return(v) == [kind |-> "return", val |-> v]
Throw(e) == [kind |-> "throw", val |-> [error |-> e]]

\* interface Tokens
Tokens(a, r, e) == [access_token |-> a, refresh_token |-> r, expires_at |-> e]

\* JSON.stringify(tokens): the blob kept under TOKENS_KEY
JSONstringify(t) ==
    [json |-> <<"access_token", t.access_token, "refresh_token", t.refresh_token,
                "expires_at", t.expires_at>>]

JSONparse_Shifted(d) ==
    [access_token |-> d.json[2], refresh_token |-> d.json[4],
     expires_at |-> d.json[6] + 1]

\* JSON.parse(data) as Tokens
JSONparse(d) ==
    [access_token |-> d.json[2], refresh_token |-> d.json[4], expires_at |-> d.json[6]]

\* the outcome of TOKENS_KV.get when the store layer fails
KVError == [kverror |-> TRUE]

\* a stored text that JSON.parse rejects
Garbled == [garbled |-> TRUE]

\* the value of a field that is not there (undefined)
UNDEFINED == 0 - 1

\* JavaScript !v on strings and numbers: the empty string, the number 0 and
\* undefined
Falsy(v) == v = 0 \/ v = UNDEFINED

ValidTokenStructure_ExpiryOnly(t) == ~Falsy(t.expires_at)

ValidTokenStructure_TwoFields(t) ==
    ~(Falsy(t.access_token) \/ Falsy(t.refresh_token))

\* the structure check of readTokens and writeTokens
ValidTokenStructure(t) ==
    ~(Falsy(t.access_token) \/ Falsy(t.refresh_token) \/ Falsy(t.expires_at))

\* readTokens, given what TOKENS_KV.get produced
readTokens(data) ==
    IF data = KVError THEN NULL
    ELSE IF data = NULL THEN NULL
    ELSE IF data = Garbled THEN NULL
    ELSE IF ~ValidTokenStructure(JSONparse(data)) THEN NULL
    ELSE JSONparse(data)

EXPIRY_MARGIN_S == 60
DEFAULT_EXPIRES_IN_S == 3600

TokenStillValid_Inclusive(tokens, now) == tokens.expires_at >= now + EXPIRY_MARGIN_S

\* getAccessToken: the token is still valid
TokenStillValid(tokens, now) == tokens.expires_at > now + EXPIRY_MARGIN_S

RefreshedTokens_PresentedToken(data, currentTokens, refreshToken, now) ==
    Tokens(data.access_token,
           OrElse(data.refresh_token, refreshToken),
           now + OrElse(data.expires_in, DEFAULT_EXPIRES_IN_S))

RefreshedTokens_NoDefault(data, currentTokens, refreshToken, now) ==
    Tokens(data.access_token,
           OrElse(data.refresh_token,
                  OrElse(IF currentTokens = NULL THEN 0 ELSE currentTokens.refresh_token,
                         refreshToken)),
           now + data.expires_in)

\* refreshAccessToken: the Tokens it returns
RefreshedTokens(data, currentTokens, refreshToken, now) ==
    Tokens(data.access_token,
           OrElse(data.refresh_token,
                  OrElse(IF currentTokens = NULL THEN 0 ELSE currentTokens.refresh_token,
                         refreshToken)),
           now + OrElse(data.expires_in, DEFAULT_EXPIRES_IN_S))

\* --------------------------------------------------------- retry policy
TRANSFER_RETRY_ATTEMPTS_Four == 3 + 1

TRANSFER_RETRY_ATTEMPTS_Two == 3 - 1

TRANSFER_RETRY_ATTEMPTS_Five == 3 + 2

TRANSFER_RETRY_ATTEMPTS == 3
TRANSFER_RETRY_BASE_DELAY_MS == 350
TRANSFER_RETRY_MAX_DELAY_MS == 2000

\* Response.ok
ResponseOk(response) == response.status >= 200 /\ response.status <= 299

shouldRetryTransfer_No404(response) ==
    IF response.status = 429 THEN TRUE
    ELSE response.status >= 500 /\ response.status <= 504

shouldRetryTransfer(response) ==
    IF response.status = 404 \/ response.status = 429 THEN TRUE
    ELSE response.status >= 500 /\ response.status <= 504

\* the Retry-After header of a response: absent, the empty string, a string
\* Number() parses (seconds), a string only Date.parse parses (at, in ms), or
\* a string neither parses
NoHeader == [kind |-> "absent"]
RetryAfterValues ==
    {NoHeader, [kind |-> "empty"], [kind |-> "garbage"]}
      \cup {[kind |-> "seconds", seconds |-> s] : s \in {-1, 0, 1, 2, 3}}
      \cup {[kind |-> "date", at |-> StartMs + d] : d \in {-1000, 1500, 5000}}

ExponentialDelayMs_NoDoubling(attempt) ==
    Min(TRANSFER_RETRY_BASE_DELAY_MS, TRANSFER_RETRY_MAX_DELAY_MS)

\* getRetryDelayMs: the exponential policy
ExponentialDelayMs(attempt) ==
    Min(TRANSFER_RETRY_BASE_DELAY_MS * 2^(attempt - 1), TRANSFER_RETRY_MAX_DELAY_MS)

getRetryDelayMs_Unclamped(attempt, response, nowMs) ==
    IF response # NULL /\ response.status = 429
         /\ response.retryAfter.kind \notin {"absent", "empty"}
    THEN IF response.retryAfter.kind = "seconds"
         THEN response.retryAfter.seconds * 1000
         ELSE IF response.retryAfter.kind = "date" /\ response.retryAfter.at - nowMs > 0
         THEN response.retryAfter.at - nowMs
         ELSE ExponentialDelayMs(attempt)
    ELSE ExponentialDelayMs(attempt)

getRetryDelayMs_IgnoresHeader(attempt, response, nowMs) == ExponentialDelayMs(attempt)

\* getRetryDelayMs(attempt, response) at the time nowMs; response is NULL
\* when the attempt threw
getRetryDelayMs(attempt, response, nowMs) ==
    IF response # NULL /\ response.status = 429
         /\ response.retryAfter.kind \notin {"absent", "empty"}
    THEN IF response.retryAfter.kind = "seconds"
         THEN Min(response.retryAfter.seconds * 1000, TRANSFER_RETRY_MAX_DELAY_MS)
         ELSE IF response.retryAfter.kind = "date" /\ response.retryAfter.at - nowMs > 0
         THEN Min(response.retryAfter.at - nowMs, TRANSFER_RETRY_MAX_DELAY_MS)
         ELSE ExponentialDelayMs(attempt)
    ELSE ExponentialDelayMs(attempt)

\* retryTransfer: the response of this attempt is returned
ReturnsResponse(response, attempt) ==
    ResponseOk(response) \/ ~shouldRetryTransfer(response)
      \/ attempt = TRANSFER_RETRY_ATTEMPTS

RethrowsError_Never(attempt) == FALSE

RethrowsError_Always(attempt) == TRUE

\* retryTransfer: the error of this attempt is rethrown
RethrowsError(attempt) == attempt = TRANSFER_RETRY_ATTEMPTS

\* retryTransfer: the loop condition
LoopContinues(attempt) == attempt <= TRANSFER_RETRY_ATTEMPTS

\* retryTransfer: lastResponse ?? new Response('...', { status: 500 })
ExhaustedResponse(lastResponse) ==
    IF lastResponse # NULL THEN lastResponse
    ELSE [status |-> 500, retryAfter |-> NoHeader, n |-> 0]

\* ------------------------------------------------------------- state
VARIABLES
    kv,      \* TOKENS_KV[TOKENS_KEY]: NULL or the stored blob
    env,     \* SPOTIFY_CLIENT_ID and SPOTIFY_CLIENT_SECRET (0: unset)
    clock,   \* Date.now(), milliseconds
    ticks,   \* how often the clock has advanced
    issued,  \* how many credentials the token endpoint has issued
    proc     \* the requests

vars == <<kv, env, clock, ticks, issued, proc>>

\* Math.floor(Date.now() / 1000)
NowSec == clock \div 1000

Idle ==
    [pc |-> "idle", op |-> "none", stack |-> <<>>, calls |-> 0,
     ga_tokens |-> NULL, now |-> 0,
     refreshToken |-> 0, data |-> NULL, newTokens |-> NULL,
     accessToken |-> 0, response |-> NULL, sf_tokens |-> NULL,
     makeRequest |-> "none", attempt |-> 0, lastResponse |-> NULL, delayMs |-> 0,
     req |-> NULL, result |-> NULL, trace |-> <<>>, faults |-> 0]

\* an event that tells of a failed store read, a refresh request that failed
\* or brought an incomplete or short-lived credential, or an unreachable
\* resource API
Faulty(ev) ==
    \/ ev.e = "kvget" /\ ev.val = NULL
    \/ ev.e = "tokenResp" /\ ~ev.ok
    \/ ev.e = "tokenResp" /\ ev.ok
         /\ (ev.data.access_token = 0 \/ ev.data.refresh_token = 0
               \/ ev.data.expires_in # 0)
    \/ ev.e = "apiResp" /\ ev.out.kind = "throw"

Log(st, ev) ==
    [st EXCEPT !.trace = Append(@, ev),
               !.faults = IF Faulty(ev) THEN @ + 1 ELSE @]

Push(st, site) == [st EXCEPT !.stack = <<site>> \o @]

\* spotifyFetch: if (response.status === 401)
Unauthorized(response) == response.status = 401

getAccessToken_refreshed_OldToken(st) == Return(st.ga_tokens.access_token)

\* getAccessToken: return newTokens.access_token
getAccessToken_refreshed(st) == Return(st.newTokens.access_token)

getAccessToken_catch_Rethrow == Throw("Token refresh failed")

\* getAccessToken: catch (error) { ...; return null; }
getAccessToken_catch == Return(0)

spotifyFetch_catch_Rethrow(st) == Throw("Token refresh failed")

\* spotifyFetch: catch (error) { return response; }
spotifyFetch_catch(st) == Return(st.response)

getAccessToken_absent_Throws == Throw("No credential stored")

\* getAccessToken: if (!tokens) { return null; }
getAccessToken_absent == Return(0)

spotifyFetch_noToken_Returns401 ==
    Return([status |-> 401, retryAfter |-> [kind |-> "absent"], n |-> 0])

\* spotifyFetch: if (!accessToken) { throw new Error('No access token available'); }
spotifyFetch_noToken == Throw("No access token available")

RetryToken_Stale(st) == st.accessToken

\* spotifyFetch: refreshedToken, the bearer token of the retry
RetryToken(st) == st.newTokens.access_token

RECURSIVE Resume(_, _)
RECURSIVE ResumeHandler(_, _)

\* fn completes with out: its caller resumes
ReturnFrom(st, fn, out) == Resume(Log(st, [e |-> "ret", fn |-> fn, out |-> out]), out)

writeTokens_begin_Unchecked(st, tokens, site) ==
    [Push(st, site) EXCEPT !.pc = "writeTokens_put", !.newTokens = tokens]

\* writeTokens up to TOKENS_KV.put: an invalid structure throws at once
writeTokens_begin(st, tokens, site) ==
    IF ValidTokenStructure(tokens)
    THEN [Push(st, site) EXCEPT !.pc = "writeTokens_put", !.newTokens = tokens]
    ELSE Resume(Push(st, site), Throw("Failed to save tokens"))

\* the synchronous code that runs when the awaited call at the top return
\* site completes with out
Resume(st, out) ==
    LET site == Head(st.stack)
        s == [st EXCEPT !.stack = Tail(@)]
    IN  CASE site = "top" ->
               [s EXCEPT !.pc = "done", !.result = out]
          [] site = "getAccessToken:140" ->
               \* newTokens = await refreshAccessToken(...) inside try
               IF out.kind = "throw"
               THEN ReturnFrom(s, "getAccessToken", getAccessToken_catch)
               ELSE writeTokens_begin(s, out.val, "getAccessToken:141")
          [] site = "getAccessToken:141" ->
               \* await writeTokens(newTokens) inside try
               IF out.kind = "throw"
               THEN ReturnFrom(s, "getAccessToken", getAccessToken_catch)
               ELSE ReturnFrom(s, "getAccessToken", getAccessToken_refreshed(s))
          [] site = "spotifyFetch:159" ->
               \* accessToken = await getAccessToken(env)
               IF out.kind = "throw"
               THEN ReturnFrom(s, "spotifyFetch", out)
               ELSE IF out.val = 0
               THEN ReturnFrom(s, "spotifyFetch", spotifyFetch_noToken)
               ELSE [Log(s, [e |-> "apiReq", token |-> out.val])
                       EXCEPT !.pc = "spotifyFetch_fetch", !.accessToken = out.val]
          [] site = "spotifyFetch:185" ->
               \* newTokens = await refreshAccessToken(...) inside try
               IF out.kind = "throw"
               THEN ReturnFrom(s, "spotifyFetch", spotifyFetch_catch(s))
               ELSE writeTokens_begin(s, out.val, "spotifyFetch:186")
          [] site = "spotifyFetch:186" ->
               \* await writeTokens(newTokens), then return fetch(...)
               IF out.kind = "throw"
               THEN ReturnFrom(s, "spotifyFetch", spotifyFetch_catch(s))
               ELSE [Log(s, [e |-> "apiReq", token |-> RetryToken(s)])
                       EXCEPT !.pc = "spotifyFetch_retry"]
          [] site = "makeRequest" ->
               \* the closure handed to retryTransfer completes
               ReturnFrom(s, "makeRequest", out)
          [] site = "retryTransfer:117" ->
               \* response = await makeRequest() inside try
               IF out.kind = "return"
               THEN IF ReturnsResponse(out.val, s.attempt)
                    THEN ReturnFrom([s EXCEPT !.lastResponse = out.val],
                                    "retryTransfer", out)
                    ELSE LET d == getRetryDelayMs(s.attempt, out.val, clock)
                         IN  [Log(s, [e |-> "sleep", ms |-> d, at |-> clock])
                                EXCEPT !.pc = "retryTransfer_sleep",
                                       !.lastResponse = out.val, !.delayMs = d]
               ELSE IF RethrowsError(s.attempt)
                    THEN ReturnFrom(s, "retryTransfer", out)
                    ELSE LET d == getRetryDelayMs(s.attempt, NULL, clock)
                         IN  [Log(s, [e |-> "sleep", ms |-> d, at |-> clock])
                                EXCEPT !.pc = "retryTransfer_sleep", !.delayMs = d]
          [] OTHER ->
               \* a return site in index.ts: requireAuth and the route handlers
               ResumeHandler(st, out)

spotifyFetch_afterRetry_Again(st, out) ==
    IF out.kind = "return" /\ Unauthorized(out.val)
    THEN [Log(st, [e |-> "apiReq", token |-> RetryToken(st)])
            EXCEPT !.pc = "spotifyFetch_retry"]
    ELSE ReturnFrom(st, "spotifyFetch", out)

\* spotifyFetch: return fetch(...), whatever the retry produced
spotifyFetch_afterRetry(st, out) == ReturnFrom(st, "spotifyFetch", out)

\* getAccessToken up to readTokens
getAccessToken_begin(st, site) ==
    [Log(Push(st, site), [e |-> "call", fn |-> "getAccessToken", arg |-> 0])
       EXCEPT !.pc = "getAccessToken_readTokens"]

\* spotifyFetch up to the readTokens of getAccessToken
spotifyFetch_begin(st, site) ==
    getAccessToken_begin(
        Log(Push(st, site), [e |-> "call", fn |-> "spotifyFetch", arg |-> 0]),
        "spotifyFetch:159")

\* refreshAccessToken: clientId and clientSecret are both set
ClientConfigured == ~(env.SPOTIFY_CLIENT_ID = 0 \/ env.SPOTIFY_CLIENT_SECRET = 0)

\* refreshAccessToken up to the fetch of the token endpoint
refreshAccessToken_begin(st, refreshToken, site) ==
    LET s == Log(Push(st, site),
                 [e |-> "call", fn |-> "refreshAccessToken", arg |-> refreshToken])
    IN  IF ~ClientConfigured
        THEN ReturnFrom(s, "refreshAccessToken",
                        Throw("Spotify client credentials not configured"))
        ELSE [Log(s, [e |-> "tokenReq", refresh_token |-> refreshToken])
                EXCEPT !.pc = "refreshAccessToken_fetch", !.refreshToken = refreshToken]

\* retryTransfer: await makeRequest() of the current attempt
makeRequest_begin(st) ==
    LET s == Log(Push(st, "retryTransfer:117"),
                 [e |-> "call", fn |-> "makeRequest", arg |-> st.attempt])
    IN  IF st.makeRequest = "spotifyFetch"
        THEN spotifyFetch_begin(s, "makeRequest")
        ELSE [Push(s, "makeRequest") EXCEPT !.pc = "makeRequest"]

\* retryTransfer(makeRequest) up to the first await: attempt = 1
retryTransfer_begin(st, mk, site) ==
    makeRequest_begin(
        [Log(Push(st, site), [e |-> "call", fn |-> "retryTransfer", arg |-> 0])
           EXCEPT !.attempt = 1, !.makeRequest = mk])

\* --------------------------------------------------- the /api requests
\* jsonError(code, message, status): the JSON body {ok: false, error: {code,
\* message}} with the status
jsonError(code, status) == [status |-> status, code |-> code, body |-> "error"]

\* jsonSuccess(data): status 200
jsonSuccess == [status |-> 200, code |-> "none", body |-> "success"]

\* handleOptions: new Response(null, { status: 204 })
handleOptions == [status |-> 204, code |-> "none", body |-> "none"]

checkAutomationKey_AnyKey(request) == request.key # 0

\* checkAutomationKey: providedKey === env.AUTOMATION_KEY (0: no header)
checkAutomationKey(request) == request.key = env.AUTOMATION_KEY

isPremiumRequiredError(response) == response.status = 403

\* handleGetDevices and handleTransferEcho: the answer to a devices response
\* that is not ok
DevicesError(response) ==
    IF isPremiumRequiredError(response) THEN jsonError("PREMIUM_REQUIRED", 403)
    ELSE jsonError("SPOTIFY_ERROR", response.status)

\* the catch of a route handler: INTERNAL_ERROR, 500
handler_catch == jsonError("INTERNAL_ERROR", 500)

\* handleTransfer and handleTransferEcho: the answer once retryTransfer has
\* returned or thrown
TransferResult(out) ==
    IF out.kind = "throw" THEN handler_catch
    ELSE IF ~ResponseOk(out.val)
    THEN IF isPremiumRequiredError(out.val) THEN jsonError("PREMIUM_REQUIRED", 403)
         ELSE IF out.val.status = 404 THEN jsonError("NO_ACTIVE_DEVICE", 404)
         ELSE jsonError("SPOTIFY_ERROR", out.val.status)
    ELSE jsonSuccess

\* handleTransfer: !deviceId || typeof deviceId !== 'string', for the body
\* request.json().catch(() => ({})) produced
InvalidDeviceId(body) ==
    body \in {"no deviceId", "non-string deviceId", "empty deviceId", "not JSON"}

\* String.prototype.toLowerCase, on names written as tuples of characters
lowerChar(c) ==
    CASE c = "E" -> "e" [] c = "C" -> "c" [] c = "H" -> "h" [] c = "O" -> "o"
      [] c = "D" -> "d" [] c = "T" -> "t" [] c = "V" -> "v" [] OTHER -> c

toLowerCase(str) == [i \in DOMAIN str |-> lowerChar(str[i])]

\* String.prototype.includes
includes(str, sub) ==
    \E i \in 0..(Len(str) - Len(sub)) : SubSeq(str, i + 1, i + Len(sub)) = sub

IsEchoDevice_CaseSensitive(device) ==
    \/ includes(device, <<"e", "c", "h", "o">>)
    \/ includes(device, <<"d", "o", "t">>)

\* handleTransferEcho: the devices with "echo" or "dot" in the name
IsEchoDevice(device) ==
    \/ includes(toLowerCase(device), <<"e", "c", "h", "o">>)
    \/ includes(toLowerCase(device), <<"d", "o", "t">>)

echoDevices(devices) == SelectSeq(devices, IsEchoDevice)

\* handleTransferEcho: the 409 that lists the matching devices
MultipleEchoDevices(matches) ==
    [status |-> 409, code |-> "MULTIPLE_ECHO_DEVICES", body |-> "error",
     devices |-> matches]

\* handleRequest answers
Respond(st, response) == ReturnFrom(st, "handleRequest", Return(response))

Caught_Rethrow(st, out) == ReturnFrom(st, "handleRequest", out)

\* the try / catch of a route handler: what is thrown at an await inside the
\* try is answered with INTERNAL_ERROR
Caught(st, out) == Respond(st, handler_catch)

\* handleTransfer up to retryTransfer: a body that is the JSON value null
\* cannot be destructured, and the TypeError reaches the catch
handleTransfer_begin(st) ==
    IF st.req.body = "null" THEN Respond(st, handler_catch)
    ELSE IF InvalidDeviceId(st.req.body)
    THEN Respond(st, jsonError("INVALID_REQUEST", 400))
    ELSE retryTransfer_begin(st, "spotifyFetch", "handleTransfer:371")

\* handleRequest: the route, once requireAuth has returned null
Route(st) ==
    CASE st.req.route = "GET /api/devices" ->
           spotifyFetch_begin(st, "handleGetDevices:336")
      [] st.req.route = "POST /api/transfer" -> handleTransfer_begin(st)
      [] st.req.route = "POST /api/transfer/echo" ->
           spotifyFetch_begin(st, "handleTransferEcho:426")
      [] OTHER -> Respond(st, jsonError("NOT_FOUND", 404))

\* handleRequest up to the readTokens of requireAuth
handleRequest_begin(st) ==
    LET s == Log(Push(st, "top"), [e |-> "call", fn |-> "handleRequest", arg |-> st.req])
    IN  IF s.req.method = "OPTIONS" THEN Respond(s, handleOptions)
        ELSE IF ~checkAutomationKey(s.req)
        THEN Respond(s, jsonError("INVALID_AUTOMATION_KEY", 401))
        ELSE [Log(Push(s, "handleRequest:608"),
                  [e |-> "call", fn |-> "requireAuth", arg |-> 0])
                EXCEPT !.pc = "requireAuth_readTokens"]

\* handleCallback: the HTML pages it answers with
htmlResponse(status) == [status |-> status, code |-> "none", body |-> "html"]

\* exchangeCodeForTokens up to the fetch of the token endpoint
exchangeCodeForTokens_begin(st, site) ==
    LET s == Log(Push(st, site),
                 [e |-> "call", fn |-> "exchangeCodeForTokens", arg |-> 0])
    IN  IF ~ClientConfigured
        THEN ReturnFrom(s, "exchangeCodeForTokens",
                        Throw("Spotify client credentials not configured"))
        ELSE [Log(s, [e |-> "codeReq"]) EXCEPT !.pc = "exchangeCodeForTokens_fetch"]

\* exchangeCodeForTokens: the Tokens built from the token endpoint's data
ExchangedTokens(data, now) ==
    Tokens(data.access_token, data.refresh_token,
           now + OrElse(data.expires_in, DEFAULT_EXPIRES_IN_S))

\* handleCallback up to exchangeCodeForTokens: an error parameter, a missing
\* code or state, or a state that differs from the cookie is answered 400
handleCallback_begin(st) ==
    LET s == Log(Push(st, "top"), [e |-> "call", fn |-> "handleCallback", arg |-> st.req])
    IN  IF s.req # "code and state"
        THEN ReturnFrom(s, "handleCallback", Return(htmlResponse(400)))
        ELSE exchangeCodeForTokens_begin(s, "handleCallback:244")

\* the synchronous code of index.ts that runs when the awaited call at the
\* top return site completes with out
ResumeHandler(st, out) ==
    LET site == Head(st.stack)
        s == [st EXCEPT !.stack = Tail(@)]
    IN  CASE site = "requireAuth:552" ->
               \* accessToken = await getAccessToken(env)
               IF out.kind = "throw" THEN ReturnFrom(s, "requireAuth", out)
               ELSE IF out.val = 0
               THEN ReturnFrom(s, "requireAuth",
                               Return(jsonError("TOKEN_REFRESH_FAILED", 401)))
               ELSE ReturnFrom(s, "requireAuth", Return(NULL))
          [] site = "handleRequest:608" ->
               \* authError = await requireAuth(env)
               IF out.kind = "throw" THEN ReturnFrom(s, "handleRequest", out)
               ELSE IF out.val # NULL THEN Respond(s, out.val)
               ELSE Route(s)
          [] site = "handleGetDevices:336" ->
               \* response = await spotifyFetch(...) inside try
               IF out.kind = "throw" THEN Caught(s, out)
               ELSE IF ~ResponseOk(out.val) THEN Respond(s, DevicesError(out.val))
               ELSE [s EXCEPT !.pc = "handleGetDevices_json"]
          [] site = "handleTransfer:371" ->
               \* response = await retryTransfer(...) inside try
               IF out.kind = "throw" THEN Caught(s, out)
               ELSE Respond(s, TransferResult(out))
          [] site = "handleTransferEcho:426" ->
               \* devicesResponse = await spotifyFetch(...) inside try
               IF out.kind = "throw" THEN Caught(s, out)
               ELSE IF ~ResponseOk(out.val) THEN Respond(s, DevicesError(out.val))
               ELSE [s EXCEPT !.pc = "handleTransferEcho_json"]
          [] site = "handleTransferEcho:484" ->
               \* transferResponse = await retryTransfer(...) inside try
               IF out.kind = "throw" THEN Caught(s, out)
               ELSE Respond(s, TransferResult(out))
          [] site = "handleCallback:244" ->
               \* tokens = await exchangeCodeForTokens(...) inside try
               IF out.kind = "throw"
               THEN ReturnFrom(s, "handleCallback", Return(htmlResponse(500)))
               ELSE writeTokens_begin([s EXCEPT !.newTokens = out.val], out.val,
                                      "handleCallback:245")
          [] site = "handleCallback:245" ->
               \* await writeTokens(tokens, env) inside try
               IF out.kind = "throw"
               THEN ReturnFrom(s, "handleCallback", Return(htmlResponse(500)))
               ELSE ReturnFrom(s, "handleCallback", Return(htmlResponse(200)))

\* ------------------------------------------------------------ environment
\* what TOKENS_KV.get can produce now
KVGet == {kv, KVError}

\* what the token endpoint can answer: unreachable, a non-success status, or
\* JSON with access_token, optionally refresh_token and expires_in
ExpiresIn == {0, 30}
TokenResponses ==
    {[kind |-> "network error"], [kind |-> "not ok"]}
      \cup {[kind |-> "data", access |-> a, refresh |-> r, expires_in |-> x] :
               a \in BOOLEAN, r \in BOOLEAN, x \in ExpiresIn}

\* the JSON body of the n-th credential the token endpoint issues
IssuedData(r, n) ==
    [access_token |-> IF r.access THEN n ELSE 0,
     refresh_token |-> IF r.refresh THEN n ELSE 0,
     expires_in |-> r.expires_in]

\* what the resource API can answer: a response, or the fetch rejects
ApiStatuses == {200, 401, 403, 404}
ApiOutcomes ==
    {Throw("network error")}
      \cup {Return([status |-> s, retryAfter |-> NoHeader]) : s \in ApiStatuses}

\* what an arbitrary makeRequest can produce
Statuses == {200, 204, 299, 300, 400, 401, 403, 404, 429, 499, 500, 502, 504, 505}
MakeRequestOutcomes ==
    {Throw("request failed")}
      \cup {Return([status |-> s, retryAfter |-> NoHeader]) : s \in Statuses}
      \cup {Return([status |-> 429, retryAfter |-> h]) : h \in RetryAfterValues}

\* an outcome (a response or an error) marked with n, the place of its
\* request among the requests of the operation
Numbered(out, n) ==
    [out EXCEPT !.val = [f \in DOMAIN out.val \cup {"n"} |->
                           IF f = "n" THEN n ELSE out.val[f]]]

\* the resource API requests the operation has issued so far
ApiRequests(st) == Cardinality({i \in DOMAIN st.trace : st.trace[i].e = "apiReq"})

\* how far the token endpoint's counter of issued credentials may run: one
\* playback transfer can take six credentials
IssueCap(st) == IF st.op = "transfer" THEN MaxTransferIssued ELSE MaxIssued

\* ---------------------------------------------------------------- actions
\* a request starts: one of the core's operations is called
Start(p, op) ==
    /\ proc[p].pc \in {"idle", "done"}
    /\ proc[p].calls < MaxCalls
    /\ LET st == [Idle EXCEPT !.op = op, !.calls = proc[p].calls + 1]
       IN  proc' = [proc EXCEPT ![p] =
             CASE op = "getAccessToken" -> getAccessToken_begin(st, "top")
               [] op = "spotifyFetch" -> spotifyFetch_begin(st, "top")
               [] op = "retryTransfer" -> retryTransfer_begin(st, "stub", "top")
               [] op = "transfer" -> retryTransfer_begin(st, "spotifyFetch", "top")]
    /\ UNCHANGED <<kv, env, clock, ticks, issued>>

\* getAccessToken: readTokens completes; lines 123-140
getAccessToken_readTokens(p) ==
    /\ proc[p].pc = "getAccessToken_readTokens"
    /\ \E data \in KVGet :
         LET tokens == readTokens(data)
             s == [Log(proc[p], [e |-> "kvget", fn |-> "getAccessToken", val |-> tokens,
                                 now |-> NowSec])
                     EXCEPT !.ga_tokens = tokens, !.now = NowSec]
         IN  proc' = [proc EXCEPT ![p] =
               IF tokens = NULL
               THEN ReturnFrom(s, "getAccessToken", getAccessToken_absent)
               ELSE IF TokenStillValid(tokens, NowSec)
               THEN ReturnFrom(s, "getAccessToken", Return(tokens.access_token))
               ELSE refreshAccessToken_begin(s, tokens.refresh_token,
                                             "getAccessToken:140")]
    /\ UNCHANGED <<kv, env, clock, ticks, issued>>

\* refreshAccessToken: the token endpoint answers; lines 87-104
refreshAccessToken_fetch(p) ==
    /\ proc[p].pc = "refreshAccessToken_fetch"
    /\ \E r \in TokenResponses :
         IF r.kind = "data"
         THEN /\ issued < IssueCap(proc[p])
              /\ issued' = issued + 1
              /\ proc' = [proc EXCEPT ![p] =
                    [Log(@, [e |-> "tokenResp", ok |-> TRUE,
                             data |-> IssuedData(r, issued + 1)])
                       EXCEPT !.pc = "refreshAccessToken_readTokens",
                              !.data = IssuedData(r, issued + 1)]]
         ELSE /\ issued' = issued
              /\ proc' = [proc EXCEPT ![p] =
                    ReturnFrom(Log(@, [e |-> "tokenResp", ok |-> FALSE, data |-> NULL]),
                               "refreshAccessToken", Throw("Token refresh failed"))]
    /\ UNCHANGED <<kv, env, clock, ticks>>

\* refreshAccessToken: readTokens completes; lines 109-115, then the caller
\* goes on to writeTokens
refreshAccessToken_readTokens(p) ==
    /\ proc[p].pc = "refreshAccessToken_readTokens"
    /\ \E data \in KVGet :
         LET currentTokens == readTokens(data)
             s == Log(proc[p], [e |-> "kvget", fn |-> "refreshAccessToken",
                                val |-> currentTokens, now |-> NowSec])
         IN  proc' = [proc EXCEPT ![p] =
               ReturnFrom(s, "refreshAccessToken",
                          Return(RefreshedTokens(s.data, currentTokens,
                                                 s.refreshToken, NowSec)))]
    /\ UNCHANGED <<kv, env, clock, ticks, issued>>

\* writeTokens: TOKENS_KV.put completes or fails; lines 57-62
writeTokens_put(p) ==
    /\ proc[p].pc = "writeTokens_put"
    /\ \/ /\ kv' = JSONstringify(proc[p].newTokens)
          /\ proc' = [proc EXCEPT ![p] =
                Resume(Log(@, [e |-> "kvput", tokens |-> @.newTokens, before |-> kv]),
                       Return(0))]
       \/ /\ kv' = kv
          /\ proc' = [proc EXCEPT ![p] = Resume(@, Throw("Failed to save tokens"))]
    /\ UNCHANGED <<env, clock, ticks, issued>>

\* spotifyFetch: the resource API answers the first request; lines 168-179
spotifyFetch_fetch(p) ==
    /\ proc[p].pc = "spotifyFetch_fetch"
    /\ \E o \in ApiOutcomes :
         LET out == Numbered(o, ApiRequests(proc[p]))
             s == Log(proc[p], [e |-> "apiResp", out |-> out, store |-> kv])
         IN  proc' = [proc EXCEPT ![p] =
               IF out.kind = "throw"
               THEN ReturnFrom(s, "spotifyFetch", out)
               ELSE IF Unauthorized(out.val)
               THEN [s EXCEPT !.pc = "spotifyFetch_readTokens", !.response = out.val]
               ELSE ReturnFrom(s, "spotifyFetch", out)]
    /\ UNCHANGED <<kv, env, clock, ticks, issued>>

\* spotifyFetch: readTokens completes after a 401; lines 179-185
spotifyFetch_readTokens(p) ==
    /\ proc[p].pc = "spotifyFetch_readTokens"
    /\ \E data \in KVGet :
         LET tokens == readTokens(data)
             s == [Log(proc[p], [e |-> "kvget", fn |-> "spotifyFetch", val |-> tokens,
                                 now |-> NowSec])
                     EXCEPT !.sf_tokens = tokens]
         IN  proc' = [proc EXCEPT ![p] =
               IF tokens = NULL
               THEN ReturnFrom(s, "spotifyFetch", Return(s.response))
               ELSE refreshAccessToken_begin(s, tokens.refresh_token,
                                             "spotifyFetch:185")]
    /\ UNCHANGED <<kv, env, clock, ticks, issued>>

\* spotifyFetch: the resource API answers the retry, which is returned
\* without being awaited; lines 190-197
spotifyFetch_retry(p) ==
    /\ proc[p].pc = "spotifyFetch_retry"
    /\ \E o \in ApiOutcomes :
         LET out == Numbered(o, ApiRequests(proc[p]))
         IN  proc' = [proc EXCEPT ![p] =
               spotifyFetch_afterRetry(Log(@, [e |-> "apiResp", out |-> out, store |-> kv]), out)]
    /\ UNCHANGED <<kv, env, clock, ticks, issued>>

\* an arbitrary makeRequest completes
makeRequest(p) ==
    /\ proc[p].pc = "makeRequest"
    /\ \E o \in MakeRequestOutcomes :
         proc' = [proc EXCEPT ![p] = Resume(@, Numbered(o, @.attempt))]
    /\ UNCHANGED <<kv, env, clock, ticks, issued>>

\* retryTransfer: the sleep ends, attempt++, and the loop makes the next
\* attempt or is left; lines 115-117 and 137
retryTransfer_sleep(p) ==
    /\ proc[p].pc = "retryTransfer_sleep"
    /\ proc' = [proc EXCEPT ![p] =
          IF LoopContinues(@.attempt + 1)
          THEN makeRequest_begin([@ EXCEPT !.attempt = @ + 1])
          ELSE ReturnFrom([@ EXCEPT !.attempt = @ + 1], "retryTransfer",
                          Return(ExhaustedResponse(@.lastResponse)))]
    /\ UNCHANGED <<kv, env, clock, ticks, issued>>

\* time passes
Tick ==
    /\ ticks < MaxTicks
    /\ ticks' = ticks + 1
    /\ \E d \in TickSteps : clock' = clock + d
    /\ UNCHANGED <<kv, env, issued, proc>>

\* ------------------------------------------------------- specifications
InitialExpiresAt == {990, 1060, 1061}

InitCommon ==
    /\ clock = StartMs
    /\ ticks = 0
    /\ issued = 1
    /\ proc = [p \in Procs |-> Idle]

\* the credential manager and the authenticated fetch: requests call
\* getAccessToken and spotifyFetch
Init ==
    /\ InitCommon
    /\ kv \in {NULL} \cup {JSONstringify(Tokens(1, 1, x)) : x \in InitialExpiresAt}
    /\ env \in [SPOTIFY_CLIENT_ID : {0, 1}, SPOTIFY_CLIENT_SECRET : {0, 1}]

Next ==
    \/ \E p \in Procs : Start(p, "getAccessToken")
    \/ \E p \in Procs : Start(p, "spotifyFetch")
    \/ \E p \in Procs : getAccessToken_readTokens(p)
    \/ \E p \in Procs : refreshAccessToken_fetch(p)
    \/ \E p \in Procs : refreshAccessToken_readTokens(p)
    \/ \E p \in Procs : writeTokens_put(p)
    \/ \E p \in Procs : spotifyFetch_fetch(p)
    \/ \E p \in Procs : spotifyFetch_readTokens(p)
    \/ \E p \in Procs : spotifyFetch_retry(p)
    \/ Tick

Spec == Init /\ [][Next]_vars

\* the resilient call wrapper on its own: retryTransfer around an arbitrary
\* makeRequest
InitRetry ==
    /\ InitCommon
    /\ kv = NULL
    /\ env = [SPOTIFY_CLIENT_ID |-> 1, SPOTIFY_CLIENT_SECRET |-> 1]

NextRetry ==
    \/ \E p \in Procs : Start(p, "retryTransfer")
    \/ \E p \in Procs : makeRequest(p)
    \/ \E p \in Procs : retryTransfer_sleep(p)
    \/ Tick

SpecRetry == InitRetry /\ [][NextRetry]_vars

\* the core with the login: GET /callback requests come between the calls of
\* getAccessToken and spotifyFetch
Callbacks == {"error", "no code", "no state", "state mismatch", "code and state"}

\* GET /callback arrives; lines 175-244
handleCallback(p) ==
    /\ proc[p].pc \in {"idle", "done"}
    /\ proc[p].calls < MaxCalls
    /\ \E request \in Callbacks :
         proc' = [proc EXCEPT ![p] =
            handleCallback_begin([Idle EXCEPT !.op = "handleCallback",
                                              !.calls = proc[p].calls + 1,
                                              !.req = request])]
    /\ UNCHANGED <<kv, env, clock, ticks, issued>>

\* exchangeCodeForTokens: the token endpoint answers; lines 44-69
exchangeCodeForTokens_fetch(p) ==
    /\ proc[p].pc = "exchangeCodeForTokens_fetch"
    /\ \E r \in TokenResponses :
         IF r.kind = "data"
         THEN /\ issued < MaxIssued
              /\ issued' = issued + 1
              /\ proc' = [proc EXCEPT ![p] =
                    ReturnFrom(
                      Log(@, [e |-> "codeResp", ok |-> TRUE,
                              data |-> IssuedData(r, issued + 1)]),
                      "exchangeCodeForTokens",
                      Return(ExchangedTokens(IssuedData(r, issued + 1), NowSec)))]
         ELSE /\ issued' = issued
              /\ proc' = [proc EXCEPT ![p] =
                    ReturnFrom(Log(@, [e |-> "codeResp", ok |-> FALSE, data |-> NULL]),
                               "exchangeCodeForTokens", Throw("Token exchange failed"))]
    /\ UNCHANGED <<kv, env, clock, ticks>>

InitCore ==
    /\ InitCommon
    /\ kv \in {NULL} \cup {JSONstringify(Tokens(1, 1, x)) : x \in {990, 1061}}
    /\ env = [SPOTIFY_CLIENT_ID |-> 1, SPOTIFY_CLIENT_SECRET |-> 1]

NextCore ==
    \/ \E p \in Procs : Start(p, "getAccessToken")
    \/ \E p \in Procs : Start(p, "spotifyFetch")
    \/ \E p \in Procs : handleCallback(p)
    \/ \E p \in Procs : exchangeCodeForTokens_fetch(p)
    \/ \E p \in Procs : getAccessToken_readTokens(p)
    \/ \E p \in Procs : refreshAccessToken_fetch(p)
    \/ \E p \in Procs : refreshAccessToken_readTokens(p)
    \/ \E p \in Procs : writeTokens_put(p)
    \/ \E p \in Procs : spotifyFetch_fetch(p)
    \/ \E p \in Procs : spotifyFetch_readTokens(p)
    \/ \E p \in Procs : spotifyFetch_retry(p)
    \/ Tick

SpecCore == InitCore /\ [][NextCore]_vars

\* getAccessToken called again and again on a stale credential, the log
\* running on from call to call
nextGetAccessToken(p) ==
    /\ proc[p].pc \in {"idle", "done"}
    /\ proc[p].calls < MaxCalls
    /\ proc' = [proc EXCEPT ![p] =
          getAccessToken_begin([Idle EXCEPT !.op = "getAccessToken",
                                            !.calls = proc[p].calls + 1,
                                            !.trace = proc[p].trace], "top")]
    /\ UNCHANGED <<kv, env, clock, ticks, issued>>

InitAgain ==
    /\ InitCommon
    /\ kv \in {JSONstringify(Tokens(1, 1, x)) : x \in {990, 1060}}
    /\ env = [SPOTIFY_CLIENT_ID |-> 1, SPOTIFY_CLIENT_SECRET |-> 1]

NextAgain ==
    \/ \E p \in Procs : nextGetAccessToken(p)
    \/ \E p \in Procs : getAccessToken_readTokens(p)
    \/ \E p \in Procs : refreshAccessToken_fetch(p)
    \/ \E p \in Procs : refreshAccessToken_readTokens(p)
    \/ \E p \in Procs : writeTokens_put(p)

SpecAgain == InitAgain /\ [][NextAgain]_vars

\* one playback transfer: retryTransfer around spotifyFetch, as handleTransfer
\* and handleTransferEcho call it
StartTransfer(p) == proc[p].calls = 0 /\ Start(p, "transfer")

\* the rarer mishaps of a transfer: a store read that fails, a token endpoint
\* answer without access_token or without refresh_token, a resource API
\* request that is rejected
Mishap(ev) ==
    \/ ev.e = "kvget" /\ ev.val = NULL
    \/ ev.e = "tokenResp" /\ ev.ok /\ ev.data.access_token = 0
    \/ ev.e = "tokenResp" /\ ev.ok /\ ev.data.refresh_token = 0
    \/ ev.e = "apiResp" /\ ev.out.kind = "throw"

\* the world of one transfer: any number of token endpoint failures, failing
\* store writes, short-lived credentials and resource API statuses, and at
\* most MaxFaults mishaps
TransferWorld ==
    \A p \in Procs :
      Cardinality({i \in DOMAIN proc[p].trace : Mishap(proc[p].trace[i])}) <= MaxFaults

InitTransfer ==
    /\ InitCommon
    /\ kv \in {JSONstringify(Tokens(1, 1, x)) : x \in {990, 1061}}
    /\ env = [SPOTIFY_CLIENT_ID |-> 1, SPOTIFY_CLIENT_SECRET |-> 1]

NextTransfer ==
    \/ \E p \in Procs : StartTransfer(p)
    \/ \E p \in Procs : getAccessToken_readTokens(p) /\ TransferWorld'
    \/ \E p \in Procs : refreshAccessToken_fetch(p) /\ TransferWorld'
    \/ \E p \in Procs : refreshAccessToken_readTokens(p) /\ TransferWorld'
    \/ \E p \in Procs : writeTokens_put(p)
    \/ \E p \in Procs : spotifyFetch_fetch(p) /\ TransferWorld'
    \/ \E p \in Procs : spotifyFetch_readTokens(p) /\ TransferWorld'
    \/ \E p \in Procs : spotifyFetch_retry(p) /\ TransferWorld'
    \/ \E p \in Procs : retryTransfer_sleep(p)

SpecTransfer == InitTransfer /\ [][NextTransfer]_vars

\* the credential store by itself: writeTokens and readTokens are called one
\* after the other, the log running on from call to call
FieldValues == {UNDEFINED, 0, 1, 2}

\* what the store can hold at the start: nothing, a text that is no JSON, or
\* an object with any of the three fields missing, falsy or set
StoredBlobs ==
    {NULL, Garbled}
      \cup {JSONstringify(Tokens(a, r, e)) :
               a \in FieldValues, r \in FieldValues, e \in FieldValues}

\* the credentials handed to writeTokens
Credentials == {Tokens(a, r, e) : a \in {0, 1, 2}, r \in {0, 1}, e \in {0, 990}}

\* writeTokens is called; lines 50-56
callWriteTokens(p) ==
    /\ proc[p].pc \in {"idle", "done"}
    /\ proc[p].calls < MaxCalls
    /\ \E tokens \in Credentials :
         LET st == [proc[p] EXCEPT !.op = "writeTokens", !.calls = @ + 1,
                                   !.result = NULL]
         IN  proc' = [proc EXCEPT ![p] =
               writeTokens_begin(
                 Log(st, [e |-> "call", fn |-> "writeTokens", arg |-> tokens]),
                 tokens, "top")]
    /\ UNCHANGED <<kv, env, clock, ticks, issued>>

\* readTokens is called and TOKENS_KV.get completes; lines 25-45
callReadTokens(p) ==
    /\ proc[p].pc \in {"idle", "done"}
    /\ proc[p].calls < MaxCalls
    /\ \E data \in KVGet :
         LET st == [proc[p] EXCEPT !.op = "readTokens", !.calls = @ + 1]
             s == Log(st, [e |-> "kvget", fn |-> "readTokens",
                           val |-> readTokens(data), now |-> NowSec,
                           failed |-> data = KVError, stored |-> kv])
         IN  proc' = [proc EXCEPT ![p] =
               [s EXCEPT !.pc = "done", !.result = Return(readTokens(data))]]
    /\ UNCHANGED <<kv, env, clock, ticks, issued>>

InitStore ==
    /\ InitCommon
    /\ kv \in StoredBlobs
    /\ env = [SPOTIFY_CLIENT_ID |-> 1, SPOTIFY_CLIENT_SECRET |-> 1]

NextStore ==
    \/ \E p \in Procs : callWriteTokens(p)
    \/ \E p \in Procs : writeTokens_put(p)
    \/ \E p \in Procs : callReadTokens(p)

SpecStore == InitStore /\ [][NextStore]_vars

\* the /api requests: the route, the X-Automation-Key header (0: none) and,
\* for the transfer, the body
Bodies ==
    {"valid", "no deviceId", "non-string deviceId", "empty deviceId", "not JSON", "null"}

Requests ==
    {[method |-> "OPTIONS", route |-> "OPTIONS /api/transfer", key |-> 0, body |-> "none"]}
      \cup [method : {"GET"}, route : {"GET /api/devices", "GET /api/other"},
            key : {0, 1, 2}, body : {"none"}]
      \cup [method : {"POST"}, route : {"POST /api/transfer/echo"},
            key : {0, 1, 2}, body : {"none"}]
      \cup [method : {"POST"}, route : {"POST /api/transfer"},
            key : {0, 1, 2}, body : Bodies]

\* the names of the devices the resource API lists
DeviceNames ==
    {<<"E", "c", "h", "o">>, <<"m", "y", "D", "O", "T">>, <<"T", "V">>, <<"e", "c", "h">>}

\* what devicesResponse.json() can produce: a rejection, or a list of devices
DeviceLists ==
    {<<>>,
     <<<<"T", "V">>>>,
     <<<<"e", "c", "h">>>>,
     <<<<"E", "c", "h", "o">>>>,
     <<<<"T", "V">>, <<"m", "y", "D", "O", "T">>>>,
     <<<<"E", "c", "h", "o">>, <<"m", "y", "D", "O", "T">>>>,
     <<<<"m", "y", "D", "O", "T">>, <<"T", "V">>, <<"E", "c", "h", "o">>>>,
     <<<<"T", "V">>, <<"e", "c", "h">>>>}

DevicesBodies ==
    {[kind |-> "not JSON", devices |-> <<>>]}
      \cup {[kind |-> "devices", devices |-> l] : l \in DeviceLists}

\* a request arrives
handleRequest(p) ==
    /\ proc[p].calls = 0
    /\ \E request \in Requests :
         proc' = [proc EXCEPT ![p] =
            handleRequest_begin([Idle EXCEPT !.op = "handleRequest", !.calls = 1,
                                             !.req = request])]
    /\ UNCHANGED <<kv, env, clock, ticks, issued>>

\* requireAuth: readTokens completes; lines 543-552
requireAuth_readTokens(p) ==
    /\ proc[p].pc = "requireAuth_readTokens"
    /\ \E data \in KVGet :
         LET tokens == readTokens(data)
             s == Log(proc[p], [e |-> "kvget", fn |-> "requireAuth", val |-> tokens,
                                now |-> NowSec])
         IN  proc' = [proc EXCEPT ![p] =
               IF tokens = NULL
               THEN ReturnFrom(s, "requireAuth",
                               Return(jsonError("NOT_AUTHENTICATED", 401)))
               ELSE getAccessToken_begin(s, "requireAuth:552")]
    /\ UNCHANGED <<kv, env, clock, ticks, issued>>

\* handleGetDevices: response.json() completes; lines 349-354
handleGetDevices_json(p) ==
    /\ proc[p].pc = "handleGetDevices_json"
    /\ \E parsed \in BOOLEAN :
         proc' = [proc EXCEPT ![p] =
            Respond(@, IF parsed THEN jsonSuccess ELSE handler_catch)]
    /\ UNCHANGED <<kv, env, clock, ticks, issued>>

\* handleTransferEcho: devicesResponse.json() completes; lines 441-484
handleTransferEcho_json(p) ==
    /\ proc[p].pc = "handleTransferEcho_json"
    /\ \E data \in DevicesBodies :
         LET s == Log(proc[p], [e |-> "devices", kind |-> data.kind,
                                devices |-> data.devices])
             n == Len(echoDevices(data.devices))
         IN  proc' = [proc EXCEPT ![p] =
               IF data.kind = "not JSON" THEN Respond(s, handler_catch)
               ELSE IF n = 0 THEN Respond(s, jsonError("NO_ECHO_DEVICE", 404))
               ELSE IF n > 1
               THEN Respond(s, MultipleEchoDevices(echoDevices(data.devices)))
               ELSE retryTransfer_begin(s, "spotifyFetch", "handleTransferEcho:484")]
    /\ UNCHANGED <<kv, env, clock, ticks, issued>>

\* one request to a path under /api, from the router to the response
InitApi ==
    /\ InitCommon
    /\ kv \in {NULL} \cup {JSONstringify(Tokens(1, 1, x)) : x \in {990, 1061}}
    /\ env = [SPOTIFY_CLIENT_ID |-> 1, SPOTIFY_CLIENT_SECRET |-> 1,
              AUTOMATION_KEY |-> 1]

\* the world of one /api request: the store reads, the token endpoint and the
\* resource API fail at most MaxFaults times in all
ApiWorld == \A p \in Procs : proc[p].faults <= MaxFaults

\* time passes while the request waits for the stored credential, before its
\* first request to the resource API
TickApi ==
    /\ \E p \in Procs :
         /\ proc[p].pc = "getAccessToken_readTokens"
         /\ \A i \in DOMAIN proc[p].trace : proc[p].trace[i].e # "apiReq"
    /\ Tick

NextApi ==
    \/ \E p \in Procs : handleRequest(p)
    \/ \E p \in Procs : requireAuth_readTokens(p) /\ ApiWorld'
    \/ \E p \in Procs : handleGetDevices_json(p)
    \/ \E p \in Procs : handleTransferEcho_json(p)
    \/ \E p \in Procs : getAccessToken_readTokens(p) /\ ApiWorld'
    \/ \E p \in Procs : refreshAccessToken_fetch(p) /\ ApiWorld'
    \/ \E p \in Procs : refreshAccessToken_readTokens(p) /\ ApiWorld'
    \/ \E p \in Procs : writeTokens_put(p)
    \/ \E p \in Procs : spotifyFetch_fetch(p) /\ ApiWorld'
    \/ \E p \in Procs : spotifyFetch_readTokens(p) /\ ApiWorld'
    \/ \E p \in Procs : spotifyFetch_retry(p) /\ ApiWorld'
    \/ \E p \in Procs : retryTransfer_sleep(p)
    \/ TickApi

SpecApi == InitApi /\ [][NextApi]_vars

\* two concurrent requests, each calling getAccessToken once, on a stored
\* credential and a configured client
Racers == {1, 2}

StartRace(p) == proc[p].calls = 0 /\ Start(p, "getAccessToken")

InitRace ==
    /\ clock = StartMs
    /\ ticks = 0
    /\ issued = 1
    /\ proc = [p \in Racers |-> Idle]
    /\ kv \in {JSONstringify(Tokens(1, 1, x)) : x \in InitialExpiresAt}
    /\ env = [SPOTIFY_CLIENT_ID |-> 1, SPOTIFY_CLIENT_SECRET |-> 1]

NextRace ==
    \/ \E p \in Racers : StartRace(p)
    \/ \E p \in Racers : getAccessToken_readTokens(p)
    \/ \E p \in Racers : refreshAccessToken_fetch(p)
    \/ \E p \in Racers : refreshAccessToken_readTokens(p)
    \/ \E p \in Racers : writeTokens_put(p)
    \/ Tick

SpecRace == InitRace /\ [][NextRace]_vars

\* ------------------------------------------------- reading the event logs
Trace(p) == proc[p].trace

IsCall(T, i, fn) == T[i].e = "call" /\ T[i].fn = fn

IsRet(T, j, fn) == T[j].e = "ret" /\ T[j].fn = fn

CallsOf(T, fn) == {i \in DOMAIN T : IsCall(T, i, fn)}

Least(S) == CHOOSE x \in S : \A y \in S : x <= y

Greatest(S) == CHOOSE x \in S : \A y \in S : x >= y

\* the call of fn logged at i has returned or thrown
Completed(T, i, fn) == \E j \in (i + 1)..Len(T) : IsRet(T, j, fn)

\* where the call of fn logged at i ends: its return, or the end of the log
\* while it is running
EndOf(T, i, fn) ==
    IF Completed(T, i, fn)
    THEN Least({j \in (i + 1)..Len(T) : IsRet(T, j, fn)})
    ELSE Len(T)

\* the events of one kind between i and j
Events(T, i, j, kind) == {k \in i..j : T[k].e = kind}

\* the store reads of fn between i and j
Reads(T, i, j, fn) == {k \in Events(T, i, j, "kvget") : T[k].fn = fn}

\* ------------------------------------------------------------------ C1
\* C1: for every credential getAccessToken reads from the store and every
\* now, it calls refreshAccessToken before returning if and only if
\* expires_at <= now + 60; when expires_at > now + 60 it returns the stored
\* access_token and makes no token endpoint call and no store write.
C1_RefreshIffExpiring ==
    \A p \in Procs :
      LET T == Trace(p) IN
      \A i \in CallsOf(T, "getAccessToken") :
        (i < Len(T) /\ T[i + 1].val # NULL) =>
          LET tokens == T[i + 1].val
              now == T[i + 1].now
              j == EndOf(T, i, "getAccessToken")
          IN  /\ (\E k \in i..j : IsCall(T, k, "refreshAccessToken"))
                    <=> tokens.expires_at <= now + 60
              /\ tokens.expires_at > now + 60 =>
                    /\ IsRet(T, j, "getAccessToken")
                    /\ T[j].out = Return(tokens.access_token)
                    /\ Events(T, i, j, "tokenReq") = {}
                    /\ Events(T, i, j, "kvput") = {}
              /\ (IsRet(T, j, "getAccessToken") /\ tokens.expires_at <= now + 60
                     /\ T[j].out # Return(0)) =>
                    \E k \in Events(T, i, j, "tokenResp") :
                       T[k].ok /\ T[j].out = Return(T[k].data.access_token)

\* a credential with expires_at = now + 60 exactly was refreshed and the new
\* access token returned
C1_Witness ==
    \E p \in Procs :
      LET T == Trace(p) IN
      \E i \in CallsOf(T, "getAccessToken") :
        /\ Completed(T, i, "getAccessToken")
        /\ T[i + 1].val # NULL
        /\ T[i + 1].val.expires_at = T[i + 1].now + 60
        /\ T[EndOf(T, i, "getAccessToken")].out # Return(0)
        /\ \E k \in i..EndOf(T, i, "getAccessToken") : IsCall(T, k, "refreshAccessToken")

\* ------------------------------------------------------------------ C2
\* C2: the record a successful refresh of getAccessToken writes is exactly
\* {access_token: the new token, refresh_token: the new one when the
\* response carries one and else the one stored before the refresh,
\* expires_at: now + expires_in, with 3600 for an omitted expires_in}, now
\* being the time at which refreshAccessToken builds the record; and that
\* record is what the store then holds.
C2_RefreshedRecord ==
    \A p \in Procs :
      LET T == Trace(p) IN
      \A i \in CallsOf(T, "getAccessToken") :
        LET j == EndOf(T, i, "getAccessToken") IN
        \A k \in Events(T, i, j, "kvput") :
          LET stored == T[i + 1].val
              data == T[Greatest(Events(T, i, k, "tokenResp"))].data
              now == T[Greatest(Reads(T, i, k, "refreshAccessToken"))].now
              written == T[k].tokens
          IN  /\ written.access_token = data.access_token
              /\ written.refresh_token =
                    IF data.refresh_token = 0 THEN stored.refresh_token
                    ELSE data.refresh_token
              /\ written.expires_at =
                    now + (IF data.expires_in = 0 THEN 3600 ELSE data.expires_in)
              /\ now >= T[i + 1].now
              /\ Events(T, k + 1, Len(T), "kvput") = {} => readTokens(kv) = written

\* a refresh whose response carried neither refresh_token nor expires_in
\* was written by getAccessToken
C2_Witness ==
    \E p \in Procs :
      LET T == Trace(p) IN
      \E i \in CallsOf(T, "getAccessToken") :
        \E k \in Events(T, i, EndOf(T, i, "getAccessToken"), "kvput") :
          LET data == T[Greatest(Events(T, i, k, "tokenResp"))].data
          IN  /\ data.refresh_token = 0
              /\ data.expires_in = 0
              /\ T[k].tokens.refresh_token = T[i + 1].val.refresh_token
              /\ T[k].tokens.access_token # T[i + 1].val.access_token

\* ------------------------------------------------------------------ C3
\* C3: if the refresh that getAccessToken attempts fails (token endpoint
\* unreachable, non-success status, client id or secret missing),
\* getAccessToken writes nothing, returns null without throwing, and the
\* stored credential after the call is the one stored before it.
C3_FailedRefreshWritesNothing ==
    \A p \in Procs :
      LET T == Trace(p) IN
      \A i \in CallsOf(T, "getAccessToken") :
        LET j == EndOf(T, i, "getAccessToken") IN
        (\E k \in i..j : IsRet(T, k, "refreshAccessToken") /\ T[k].out.kind = "throw") =>
          /\ IsRet(T, j, "getAccessToken")
          /\ T[j].out = Return(0)
          /\ Events(T, i, j, "kvput") = {}
          /\ j = Len(T) => readTokens(kv) = T[i + 1].val

\* a refresh failed at the token endpoint and getAccessToken returned null
C3_Witness ==
    \E p \in Procs :
      LET T == Trace(p) IN
      \E i \in CallsOf(T, "getAccessToken") :
        /\ Completed(T, i, "getAccessToken")
        /\ \E k \in i..EndOf(T, i, "getAccessToken") :
             T[k].e = "tokenResp" /\ ~T[k].ok
        /\ T[EndOf(T, i, "getAccessToken")].out = Return(0)
        /\ readTokens(kv) # NULL

\* --------------------------------------------------- spotifyFetch calls
\* the first resource API response of the spotifyFetch call logged at i
\* (0 while there is none)
FirstResp(T, i) ==
    LET R == Events(T, i, EndOf(T, i, "spotifyFetch"), "apiResp")
    IN  IF R = {} THEN 0 ELSE Least(R)

\* the first resource request of the spotifyFetch call at i was answered 401
First401(T, i) ==
    /\ FirstResp(T, i) # 0
    /\ T[FirstResp(T, i)].out.kind = "return"
    /\ T[FirstResp(T, i)].out.val.status = 401

\* ------------------------------------------------------------------ C4
\* C4: when the first resource request of spotifyFetch returns 401 and
\* readTokens finds a credential, spotifyFetch calls refreshAccessToken
\* exactly once on that path, with the stored refresh token and whatever
\* the stored expires_at is; when that refresh and its write succeed, the
\* write precedes the retry, exactly one retry is issued, with the new
\* access token, and what the retry produces is the result of spotifyFetch.
C4_RefreshAndRetryOnce ==
    \A p \in Procs :
      LET T == Trace(p) IN
      \A i \in CallsOf(T, "spotifyFetch") :
        LET j == EndOf(T, i, "spotifyFetch")
            a == FirstResp(T, i)
        IN  First401(T, i) =>
              \A r \in Reads(T, a, j, "spotifyFetch") :
                T[r].val # NULL =>
                  LET refreshes == {k \in a..j : IsCall(T, k, "refreshAccessToken")}
                      writes == Events(T, a, j, "kvput")
                      retries == Events(T, a, j, "apiReq")
                  IN  /\ Cardinality(refreshes) = 1
                      /\ \A k \in refreshes : T[k].arg = T[r].val.refresh_token
                      /\ Cardinality(writes) <= 1
                      /\ Cardinality(retries) = Cardinality(writes)
                      /\ \A w \in writes : \A k \in retries :
                            /\ w < k
                            /\ T[k].token = T[w].tokens.access_token
                            /\ \E m \in Events(T, a, w, "tokenResp") :
                                  T[m].ok /\ T[k].token = T[m].data.access_token
                      /\ (retries # {} /\ IsRet(T, j, "spotifyFetch")) =>
                            /\ T[j - 1].e = "apiResp"
                            /\ T[j - 1].out.val.n = T[a].out.val.n + 1
                            /\ T[j].out = T[j - 1].out

\* a 401 on a credential that was still valid for more than 60 s: the
\* refresh was written, the retry answered 200 and that was returned
C4_Witness ==
    \E p \in Procs :
      LET T == Trace(p) IN
      \E i \in CallsOf(T, "spotifyFetch") :
        LET j == EndOf(T, i, "spotifyFetch")
            a == FirstResp(T, i)
        IN  /\ First401(T, i)
            /\ IsRet(T, j, "spotifyFetch")
            /\ \E r \in Reads(T, a, j, "spotifyFetch") :
                  T[r].val # NULL /\ T[r].val.expires_at > T[r].now + 60
            /\ Events(T, a, j, "kvput") # {}
            /\ T[j].out.kind = "return"
            /\ T[j].out.val.status = 200

\* ------------------------------------------------------------------ C5
\* C5: when the first resource request of spotifyFetch returns 401 and no
\* credential is stored at that moment, or the refresh (the token endpoint
\* call or the write of its result) fails, spotifyFetch returns the original
\* 401 response, issues no second resource request, writes nothing, and the
\* store holds what it held when the 401 arrived.
C5_Original401OnFailure ==
    \A p \in Procs :
      LET T == Trace(p) IN
      \A i \in CallsOf(T, "spotifyFetch") :
        LET j == EndOf(T, i, "spotifyFetch")
            a == FirstResp(T, i)
        IN  (First401(T, i) /\ IsRet(T, j, "spotifyFetch")
               /\ \/ \E r \in Reads(T, a, j, "spotifyFetch") : T[r].val = NULL
                  \/ \E k \in a..j : IsRet(T, k, "refreshAccessToken")
                                         /\ T[k].out.kind = "throw"
                  \/ Events(T, a, j, "kvput") = {}) =>
              /\ T[j].out = T[a].out
              /\ Cardinality(Events(T, i, j, "apiReq")) = 1
              /\ Events(T, a, j, "kvput") = {}
              /\ j = Len(T) => kv = T[a].store

\* a 401, a credential in the store, the token endpoint refused the
\* refresh, and the 401 was returned
C5_Witness ==
    \E p \in Procs :
      LET T == Trace(p) IN
      \E i \in CallsOf(T, "spotifyFetch") :
        LET j == EndOf(T, i, "spotifyFetch")
            a == FirstResp(T, i)
        IN  /\ First401(T, i)
            /\ IsRet(T, j, "spotifyFetch")
            /\ \E k \in Events(T, a, j, "tokenResp") : ~T[k].ok
            /\ T[j].out.kind = "return"
            /\ T[j].out.val.status = 401
            /\ kv # NULL

\* ------------------------------------------------------------------ C6
\* C6: one spotifyFetch call issues at most two resource API requests; if
\* the retry is answered 401 too, that second 401 is returned at once, with
\* no further refresh, store access or request in that call.
C6_AtMostOneRetry ==
    \A p \in Procs :
      LET T == Trace(p) IN
      \A i \in CallsOf(T, "spotifyFetch") :
        LET j == EndOf(T, i, "spotifyFetch")
            resps == Events(T, i, j, "apiResp")
        IN  /\ Cardinality(Events(T, i, j, "apiReq")) <= 2
            /\ Cardinality({k \in i..j : IsCall(T, k, "refreshAccessToken")}) <= 2
            /\ \A k \in resps :
                 (k # Least(resps) /\ T[k].out.kind = "return"
                    /\ T[k].out.val.status = 401) =>
                   /\ j = k + 1
                   /\ IsRet(T, j, "spotifyFetch")
                   /\ T[j].out = T[k].out

\* the first request and the retry were both answered 401, and the second
\* 401 was returned
C6_Witness ==
    \E p \in Procs :
      LET T == Trace(p) IN
      \E i \in CallsOf(T, "spotifyFetch") :
        LET j == EndOf(T, i, "spotifyFetch")
            resps == Events(T, i, j, "apiResp")
        IN  /\ Cardinality(resps) = 2
            /\ \A k \in resps : T[k].out.kind = "return" /\ T[k].out.val.status = 401
            /\ IsRet(T, j, "spotifyFetch")
            /\ T[j].out = T[Greatest(resps)].out

\* -------------------------------------------------- retryTransfer calls
\* the attempts (calls of makeRequest) of the retryTransfer call logged at i
Attempts(T, i) ==
    {k \in i..EndOf(T, i, "retryTransfer") : IsCall(T, k, "makeRequest")}

\* the completions of makeRequest in the retryTransfer call logged at i
Outcomes(T, i) ==
    {k \in i..EndOf(T, i, "retryTransfer") : IsRet(T, k, "makeRequest")}

\* the attempt number of the makeRequest that completes at k
AttemptOf(T, k) == T[Greatest({c \in 1..k : IsCall(T, c, "makeRequest")})].arg

\* a response is a success
IsOk(out) == out.kind = "return" /\ out.val.status >= 200 /\ out.val.status <= 299

\* ------------------------------------------------------------------ C7
\* C7: in every execution of retryTransfer makeRequest is invoked at most
\* 3 times, the attempts being numbered 1, 2, 3.
C7_AtMostThreeAttempts ==
    \A p \in Procs :
      LET T == Trace(p) IN
      \A i \in CallsOf(T, "retryTransfer") :
        /\ Cardinality(Attempts(T, i)) <= 3
        /\ \A k \in Attempts(T, i) :
             T[k].arg = Cardinality({c \in Attempts(T, i) : c <= k})

\* a retryTransfer call that made three attempts and ended
C7_Witness ==
    \E p \in Procs :
      LET T == Trace(p) IN
      \E i \in CallsOf(T, "retryTransfer") :
        /\ Completed(T, i, "retryTransfer")
        /\ Cardinality(Attempts(T, i)) = 3

\* ------------------------------------------------------------------ C8
\* C8: after attempt n < 3 returns a response, retryTransfer sleeps and
\* makes attempt n + 1 if and only if the response is not ok and its status
\* is 404, 429 or in 500..504; otherwise it returns that response at once,
\* with no sleep and no further makeRequest.
C8_RetryableStatuses ==
    \A p \in Procs :
      LET T == Trace(p) IN
      \A i \in CallsOf(T, "retryTransfer") :
        \A k \in Outcomes(T, i) :
          (T[k].out.kind = "return" /\ AttemptOf(T, k) < 3) =>
            LET status == T[k].out.val.status IN
            IF ~IsOk(T[k].out)
                 /\ (status \in {404, 429} \/ (status >= 500 /\ status <= 504))
            THEN /\ T[k + 1].e = "sleep"
                 /\ Len(T) > k + 1 =>
                       IsCall(T, k + 2, "makeRequest")
                         /\ T[k + 2].arg = AttemptOf(T, k) + 1
            ELSE /\ IsRet(T, k + 1, "retryTransfer")
                 /\ T[k + 1].out = T[k].out
                 /\ Len(T) = k + 1

\* attempt 1 answered 502, retryTransfer slept and made attempt 2, which
\* answered 403 and was returned
C8_Witness ==
    \E p \in Procs :
      LET T == Trace(p) IN
      \E i \in CallsOf(T, "retryTransfer") :
        \E k1, k2 \in Outcomes(T, i) :
          /\ AttemptOf(T, k1) = 1 /\ T[k1].out.kind = "return"
          /\ T[k1].out.val.status = 502
          /\ AttemptOf(T, k2) = 2 /\ T[k2].out.kind = "return"
          /\ T[k2].out.val.status = 403
          /\ IsRet(T, k2 + 1, "retryTransfer")

\* ------------------------------------------------------------------ C9
\* C9 as stated: when no attempt returned an ok response, retryTransfer
\* returns the last received response whenever at least one attempt
\* produced a response, and raises only when every attempt threw.
C9_AsStated ==
    \A p \in Procs :
      LET T == Trace(p) IN
      \A i \in CallsOf(T, "retryTransfer") :
        LET j == EndOf(T, i, "retryTransfer")
            responses == {k \in Outcomes(T, i) : T[k].out.kind = "return"}
        IN  (IsRet(T, j, "retryTransfer")
               /\ \A k \in Outcomes(T, i) : ~IsOk(T[k].out)) =>
              /\ responses # {} => T[j].out = T[Greatest(responses)].out
              /\ T[j].out.kind = "throw" => responses = {}

\* C9 (amended): when no attempt returned an ok response, retryTransfer ends
\* with what its final attempt produced: it returns the last received
\* response when the final attempt produced a response, and it raises,
\* propagating the last error, exactly when the third attempt threw, even
\* if earlier attempts had produced responses.
C9_FinalAttemptDecides ==
    \A p \in Procs :
      LET T == Trace(p) IN
      \A i \in CallsOf(T, "retryTransfer") :
        LET j == EndOf(T, i, "retryTransfer")
            responses == {k \in Outcomes(T, i) : T[k].out.kind = "return"}
        IN  (IsRet(T, j, "retryTransfer")
               /\ \A k \in Outcomes(T, i) : ~IsOk(T[k].out)) =>
              LET last == Greatest(Outcomes(T, i)) IN
              /\ T[j].out = T[last].out
              /\ T[j].out.kind = "throw" <=>
                    (AttemptOf(T, last) = 3 /\ T[last].out.kind = "throw")
              /\ T[j].out.kind = "return" =>
                    last = Greatest(responses)

\* two attempts produced responses, the third threw, and retryTransfer
\* raised that error
C9_Witness ==
    \E p \in Procs :
      LET T == Trace(p) IN
      \E i \in CallsOf(T, "retryTransfer") :
        LET j == EndOf(T, i, "retryTransfer") IN
        /\ IsRet(T, j, "retryTransfer")
        /\ T[j].out.kind = "throw"
        /\ Cardinality({k \in Outcomes(T, i) : T[k].out.kind = "return"}) = 2

\* ----------------------------------------------------------------- C10
\* C10: an error makeRequest throws on attempt 1 or 2 is not propagated:
\* retryTransfer sleeps and then makes the next attempt; an error thrown on
\* attempt 3 propagates to the caller.
C10_ErrorsRetriedThenPropagated ==
    \A p \in Procs :
      LET T == Trace(p) IN
      \A i \in CallsOf(T, "retryTransfer") :
        \A k \in Outcomes(T, i) :
          T[k].out.kind = "throw" =>
            IF AttemptOf(T, k) < 3
            THEN /\ T[k + 1].e = "sleep"
                 /\ Len(T) > k + 1 =>
                       IsCall(T, k + 2, "makeRequest")
                         /\ T[k + 2].arg = AttemptOf(T, k) + 1
            ELSE /\ IsRet(T, k + 1, "retryTransfer")
                 /\ T[k + 1].out = T[k].out

\* all three attempts threw and the third error reached the caller
C10_Witness ==
    \E p \in Procs :
      LET T == Trace(p) IN
      \E i \in CallsOf(T, "retryTransfer") :
        LET j == EndOf(T, i, "retryTransfer") IN
        /\ Cardinality(Outcomes(T, i)) = 3
        /\ \A k \in Outcomes(T, i) : T[k].out.kind = "throw"
        /\ IsRet(T, j, "retryTransfer")
        /\ T[j].out.kind = "throw"
        /\ proc[p].result = T[j].out
        /\ T[j].out.val.n = 3

\* ------------------------------------------------- retryTransfer delays
\* the sleeps of the retryTransfer call logged at i
Sleeps(T, i) == Events(T, i, EndOf(T, i, "retryTransfer"), "sleep")

\* the attempt number of the failed attempt the sleep at k follows, and what
\* that attempt produced
SleepAttempt(T, k) == AttemptOf(T, k - 1)

SleepCause(T, k) == T[k - 1].out

\* the response is a 429 that carries a Retry-After value of this kind
Is429With(out, kinds) ==
    out.kind = "return" /\ out.val.status = 429 /\ out.val.retryAfter.kind \in kinds

\* ----------------------------------------------------------------- C11
\* C11 as stated: after a 429 whose Retry-After cannot be parsed, or whose
\* implied delay is zero or negative (0 or negative seconds, a date not in
\* the future), the delay slept is the exponential one,
\* min(350 * 2^(attempt-1), 2000) ms, never zero or negative.
C11_AsStated ==
    \A p \in Procs :
      LET T == Trace(p) IN
      \A i \in CallsOf(T, "retryTransfer") :
        \A k \in Sleeps(T, i) :
          LET out == SleepCause(T, k) IN
          (\/ Is429With(out, {"garbage"})
           \/ Is429With(out, {"seconds"}) /\ out.val.retryAfter.seconds <= 0
           \/ Is429With(out, {"date"}) /\ out.val.retryAfter.at - T[k].at <= 0) =>
            LET n == SleepAttempt(T, k) IN
            /\ T[k].ms = (IF 350 * 2^(n - 1) <= 2000 THEN 350 * 2^(n - 1) ELSE 2000)
            /\ T[k].ms > 0

\* ----------------------------------------------------------------- C12
\* C12: after a 429 on attempt n < 3 that carries Retry-After with a
\* positive integer number of seconds s, retryTransfer sleeps
\* min(1000 * s, 2000) ms before the next attempt; a 429 with Retry-After: 1
\* followed by a 200 gives exactly 2 attempts, one sleep of 1000 ms, and the
\* 200 response as the result.
C12_RetryAfterSeconds ==
    \A p \in Procs :
      LET T == Trace(p) IN
      \A i \in CallsOf(T, "retryTransfer") :
        /\ \A k \in Outcomes(T, i) :
             (Is429With(T[k].out, {"seconds"}) /\ T[k].out.val.retryAfter.seconds > 0
                /\ AttemptOf(T, k) < 3) =>
               LET s == T[k].out.val.retryAfter.seconds IN
               /\ T[k + 1].e = "sleep"
               /\ T[k + 1].ms = (IF 1000 * s <= 2000 THEN 1000 * s ELSE 2000)
               /\ s = 1 => T[k + 1].ms = 1000
               /\ s = 2 => T[k + 1].ms = 2000
               /\ Len(T) > k + 1 => IsCall(T, k + 2, "makeRequest")
        /\ \A k1, k2 \in Outcomes(T, i) :
             (/\ AttemptOf(T, k1) = 1 /\ AttemptOf(T, k2) = 2
              /\ Is429With(T[k1].out, {"seconds"})
              /\ T[k1].out.val.retryAfter.seconds = 1
              /\ T[k2].out.kind = "return" /\ T[k2].out.val.status = 200) =>
               /\ Cardinality(Attempts(T, i)) = 2
               /\ \A k \in Sleeps(T, i) : k = k1 + 1 /\ T[k].ms = 1000
               /\ Cardinality(Sleeps(T, i)) = 1
               /\ IsRet(T, k2 + 1, "retryTransfer")
               /\ T[k2 + 1].out = T[k2].out

\* attempt 1 answered 429 with Retry-After: 1, retryTransfer slept 1000 ms,
\* attempt 2 answered 200 and that was returned
C12_Witness ==
    \E p \in Procs :
      LET T == Trace(p) IN
      \E i \in CallsOf(T, "retryTransfer") :
        \E k1, k2 \in Outcomes(T, i) :
          /\ AttemptOf(T, k1) = 1 /\ AttemptOf(T, k2) = 2
          /\ Is429With(T[k1].out, {"seconds"})
          /\ T[k1].out.val.retryAfter.seconds = 1
          /\ T[k1 + 1].e = "sleep" /\ T[k1 + 1].ms = 1000
          /\ T[k2].out.kind = "return" /\ T[k2].out.val.status = 200
          /\ IsRet(T, k2 + 1, "retryTransfer")
          /\ proc[p].result = T[k2].out

\* ----------------------------------------------------------------- C13
\* C13: every delay retryTransfer sleeps is at most 2000 ms, for every
\* attempt, every response status, every Retry-After value and after a
\* thrown error.
C13_DelayAtMostMax ==
    \A p \in Procs :
      LET T == Trace(p) IN
      \A i \in CallsOf(T, "retryTransfer") :
        \A k \in Sleeps(T, i) : T[k].ms <= 2000

\* a Retry-After of 3 seconds and a date 5000 ms ahead were both slept as
\* 2000 ms
C13_Witness ==
    \E p \in Procs :
      LET T == Trace(p) IN
      \E i \in CallsOf(T, "retryTransfer") :
        \E k1, k2 \in Sleeps(T, i) :
          /\ Is429With(SleepCause(T, k1), {"seconds"})
          /\ SleepCause(T, k1).val.retryAfter.seconds = 3
          /\ Is429With(SleepCause(T, k2), {"date"})
          /\ SleepCause(T, k2).val.retryAfter.at - T[k2].at > 2000
          /\ T[k1].ms = 2000 /\ T[k2].ms = 2000

\* ----------------------------------------------------------------- C14
\* C14: when no Retry-After applies (a retryable response that is not 429,
\* a 429 without a Retry-After header, a thrown error), the delay slept
\* after failed attempt n is min(350 * 2^(n-1), 2000) ms: 350 ms after
\* attempt 1 and 700 ms after attempt 2.
C14_ExponentialBackoff ==
    \A p \in Procs :
      LET T == Trace(p) IN
      \A i \in CallsOf(T, "retryTransfer") :
        \A k \in Sleeps(T, i) :
          LET out == SleepCause(T, k)
              n == SleepAttempt(T, k)
          IN  (\/ out.kind = "throw"
               \/ out.kind = "return" /\ out.val.status # 429
               \/ Is429With(out, {"absent", "empty"})) =>
                /\ T[k].ms = (IF 350 * 2^(n - 1) <= 2000 THEN 350 * 2^(n - 1) ELSE 2000)
                /\ n = 1 => T[k].ms = 350
                /\ n = 2 => T[k].ms = 700

\* attempt 1 threw and 350 ms were slept, attempt 2 answered a 429 without
\* Retry-After and 700 ms were slept
C14_Witness ==
    \E p \in Procs :
      LET T == Trace(p) IN
      \E i \in CallsOf(T, "retryTransfer") :
        \E k1, k2 \in Sleeps(T, i) :
          /\ SleepAttempt(T, k1) = 1 /\ SleepCause(T, k1).kind = "throw"
          /\ T[k1].ms = 350
          /\ SleepAttempt(T, k2) = 2 /\ Is429With(SleepCause(T, k2), {"absent"})
          /\ T[k2].ms = 700

\* ----------------------------------------------------------------- C15
\* C15: when every attempt of a retryTransfer call that has ended produced
\* a retryable non-ok response (404, 429, 500..504), exactly 3 attempts
\* were made and the call returned the third response itself, at once,
\* raising no exception.
C15_ThreeRetryableResponses ==
    \A p \in Procs :
      LET T == Trace(p) IN
      \A i \in CallsOf(T, "retryTransfer") :
        LET j == EndOf(T, i, "retryTransfer") IN
        (/\ IsRet(T, j, "retryTransfer")
         /\ \A k \in Outcomes(T, i) :
              /\ T[k].out.kind = "return"
              /\ T[k].out.val.status \in {404, 429, 500, 501, 502, 503, 504}) =>
          /\ Cardinality(Attempts(T, i)) = 3
          /\ Cardinality(Outcomes(T, i)) = 3
          /\ j = Greatest(Outcomes(T, i)) + 1
          /\ T[j].out = T[j - 1].out
          /\ T[j].out.kind = "return"
          /\ T[j].out.val.n = 3

\* three attempts answered 404 and the third 404 was returned
C15_Witness ==
    \E p \in Procs :
      LET T == Trace(p) IN
      \E i \in CallsOf(T, "retryTransfer") :
        LET j == EndOf(T, i, "retryTransfer") IN
        /\ IsRet(T, j, "retryTransfer")
        /\ Cardinality(Outcomes(T, i)) = 3
        /\ \A k \in Outcomes(T, i) :
             T[k].out.kind = "return" /\ T[k].out.val.status = 404
        /\ proc[p].result.kind = "return"
        /\ proc[p].result.val.status = 404
        /\ proc[p].result.val.n = 3

\* ----------------------------------------------------------------- C16
\* C16: when the store holds no credential (readTokens finds none),
\* getAccessToken returns null at once, without calling the token endpoint
\* or the resource API and without writing the store.
C16_NoCredentialReturnsNull ==
    \A p \in Procs :
      LET T == Trace(p) IN
      \A i \in CallsOf(T, "getAccessToken") :
        (i < Len(T) /\ T[i + 1].val = NULL) =>
          LET j == EndOf(T, i, "getAccessToken") IN
          /\ j = i + 2
          /\ IsRet(T, j, "getAccessToken")
          /\ T[j].out = Return(0)
          /\ Events(T, i, j, "tokenReq") = {}
          /\ Events(T, i, j, "apiReq") = {}
          /\ Events(T, i, j, "kvput") = {}

\* the store is empty and a getAccessToken call has returned null, the
\* store still being empty
C16_Witness ==
    \E p \in Procs :
      LET T == Trace(p) IN
      /\ kv = NULL
      /\ proc[p].op = "getAccessToken"
      /\ proc[p].pc = "done"
      /\ proc[p].result = Return(0)
      /\ Events(T, 1, Len(T), "kvput") = {}
      /\ Len(T) = 3

\* ----------------------------------------------------------------- C17
\* C17: if the getAccessToken call of spotifyFetch returns null (no stored
\* credential, or a refresh that was needed failed), spotifyFetch fails
\* with the error 'No access token available' and issues no resource API
\* request.
C17_NoAccessToken ==
    \A p \in Procs :
      LET T == Trace(p) IN
      \A i \in CallsOf(T, "spotifyFetch") :
        LET j == EndOf(T, i, "spotifyFetch") IN
        \A k \in i..j :
          (IsRet(T, k, "getAccessToken") /\ T[k].out = Return(0)) =>
            /\ j = k + 1
            /\ IsRet(T, j, "spotifyFetch")
            /\ T[j].out = Throw("No access token available")
            /\ Events(T, i, j, "apiReq") = {}
            /\ Events(T, i, j, "apiResp") = {}

\* a stored credential needed a refresh, the refresh failed, and
\* spotifyFetch raised 'No access token available' with no resource request
C17_Witness ==
    \E p \in Procs :
      LET T == Trace(p) IN
      \E i \in CallsOf(T, "spotifyFetch") :
        LET j == EndOf(T, i, "spotifyFetch") IN
        /\ IsRet(T, j, "spotifyFetch")
        /\ T[j].out = Throw("No access token available")
        /\ \E k \in i..j : IsRet(T, k, "refreshAccessToken") /\ T[k].out.kind = "throw"
        /\ Events(T, i, j, "apiReq") = {}
        /\ proc[p].result = T[j].out

\* ------------------------------------------------------ racing refreshes
\* the credential racer p read at the start of its getAccessToken call
RaceCredential(p) == Trace(p)[2].val

\* racer p has finished: its call refreshed and returned an access token
RaceRefreshed(p) ==
    /\ proc[p].pc = "done"
    /\ proc[p].result.kind = "return"
    /\ proc[p].result.val # 0
    /\ CallsOf(Trace(p), "refreshAccessToken") # {}

\* what the token endpoint issued to racer p
RaceIssued(p) ==
    Trace(p)[Greatest(Events(Trace(p), 1, Len(Trace(p)), "tokenResp"))].data

\* what racer p found when refreshAccessToken read the store again
RaceReread(p) ==
    Trace(p)[Greatest(Reads(Trace(p), 1, Len(Trace(p)), "refreshAccessToken"))].val

\* the store writes of racer p
RaceWrites(p) == Events(Trace(p), 1, Len(Trace(p)), "kvput")

\* the one write of racer p
RaceWrite(p) == Trace(p)[Greatest(RaceWrites(p))]

\* both racers read the same expiring credential and both refreshed
BothRefreshed(p, q) ==
    /\ p # q
    /\ RaceRefreshed(p) /\ RaceRefreshed(q)
    /\ RaceCredential(p) = RaceCredential(q)

\* racer w wrote after racer o
WroteLast(w, o) == RaceWrite(w).before = JSONstringify(RaceWrite(o).tokens)

\* ----------------------------------------------------------------- C18
\* C18 as stated: when two concurrent requests read the same expiring
\* credential and both refresh successfully, both writes happen, the store
\* finally holds the record written last, and that record is a credential
\* freshly issued to one racer: its access token together with the refresh
\* token that belongs to it (the one issued with it, or else the one the
\* racer presented).
C18_AsStated ==
    \A p, q \in Racers :
      BothRefreshed(p, q) =>
        /\ Cardinality(RaceWrites(p)) = 1 /\ Cardinality(RaceWrites(q)) = 1
        /\ \E w \in {p, q} :
             LET o == CHOOSE x \in {p, q} : x # w IN
             /\ WroteLast(w, o)
             /\ kv = JSONstringify(RaceWrite(w).tokens)
             /\ RaceWrite(w).tokens.access_token = RaceIssued(w).access_token
             /\ RaceWrite(w).tokens.refresh_token =
                   IF RaceIssued(w).refresh_token # 0
                   THEN RaceIssued(w).refresh_token
                   ELSE RaceCredential(w).refresh_token

\* C18, what the code guarantees instead: when two concurrent requests read
\* the same expiring credential and both refresh successfully, both writes
\* happen, the store finally holds the record written last, and that record
\* carries the
\* access token freshly issued to the last writer together with the refresh
\* token issued with it or, when none was issued with it, the refresh token
\* the last writer found in the store after its token endpoint call: the
\* original one, or the one freshly issued to the other racer.
C18_LastWriterWins ==
    \A p, q \in Racers :
      BothRefreshed(p, q) =>
        /\ Cardinality(RaceWrites(p)) = 1 /\ Cardinality(RaceWrites(q)) = 1
        /\ \E w \in {p, q} :
             LET o == CHOOSE x \in {p, q} : x # w
                 rt == RaceWrite(w).tokens.refresh_token
             IN
             /\ WroteLast(w, o)
             /\ ~WroteLast(o, w)
             /\ kv = JSONstringify(RaceWrite(w).tokens)
             /\ RaceWrite(w).tokens.access_token = RaceIssued(w).access_token
             /\ RaceWrite(w).tokens.access_token # RaceCredential(w).access_token
             /\ rt = IF RaceIssued(w).refresh_token # 0
                     THEN RaceIssued(w).refresh_token
                     ELSE IF RaceReread(w) # NULL THEN RaceReread(w).refresh_token
                     ELSE RaceCredential(w).refresh_token
             /\ rt \in {RaceIssued(w).refresh_token, RaceIssued(o).refresh_token,
                        RaceCredential(w).refresh_token}
             /\ rt # 0

\* both racers refreshed the same credential; the last writer was issued no
\* refresh token and stored the one freshly issued to the other racer
C18_Witness ==
    \E w, o \in Racers :
      /\ BothRefreshed(w, o)
      /\ WroteLast(w, o)
      /\ kv = JSONstringify(RaceWrite(w).tokens)
      /\ RaceIssued(w).refresh_token = 0
      /\ RaceIssued(o).refresh_token # 0
      /\ RaceWrite(w).tokens.access_token = RaceIssued(w).access_token
      /\ RaceWrite(w).tokens.refresh_token = RaceIssued(o).refresh_token
      /\ RaceWrite(w).tokens.refresh_token # RaceCredential(w).refresh_token

\* ------------------------------------------------------ the /api requests
\* the request of p has been answered
Answered(p) == proc[p].op = "handleRequest" /\ proc[p].pc = "done"

\* the getAccessToken call logged at i returned null after its refresh failed
RefreshFailedIn(T, i) ==
    LET j == EndOf(T, i, "getAccessToken") IN
    /\ IsRet(T, j, "getAccessToken")
    /\ T[j].out = Return(0)
    /\ \E k \in i..j : IsRet(T, k, "refreshAccessToken") /\ T[k].out.kind = "throw"

\* the getAccessToken call logged at i is the one of requireAuth
AtTheGate(T, i) == \A k \in CallsOf(T, "spotifyFetch") : i < k

\* ----------------------------------------------------------------- C19
\* C19, as stated: whenever, while an /api request is handled, getAccessToken
\* returns null because a refresh failed, at the requireAuth gate or later
\* inside spotifyFetch, the response is 401 TOKEN_REFRESH_FAILED.
C19_AsStated ==
    \A p \in Procs :
      LET T == Trace(p) IN
      Answered(p) =>
        \A i \in CallsOf(T, "getAccessToken") :
          RefreshFailedIn(T, i) =>
            proc[p].result = Return(jsonError("TOKEN_REFRESH_FAILED", 401))

\* C19, what the code guarantees instead: a failed refresh at the requireAuth
\* gate is answered with 401 TOKEN_REFRESH_FAILED; a failed refresh inside
\* spotifyFetch, after the gate has passed, is never answered with
\* TOKEN_REFRESH_FAILED, and GET /api/devices answers it with
\* 500 INTERNAL_ERROR.
C19_GateOnly ==
    \A p \in Procs :
      LET T == Trace(p) IN
      Answered(p) =>
        \A i \in CallsOf(T, "getAccessToken") :
          RefreshFailedIn(T, i) =>
            IF AtTheGate(T, i)
            THEN proc[p].result = Return(jsonError("TOKEN_REFRESH_FAILED", 401))
            ELSE /\ proc[p].result.kind = "return"
                 /\ proc[p].result.val.code # "TOKEN_REFRESH_FAILED"
                 /\ proc[p].req.route = "GET /api/devices" =>
                      proc[p].result = Return(jsonError("INTERNAL_ERROR", 500))

\* the gate passed with a credential that was still valid, time advanced,
\* the refresh inside spotifyFetch failed, and GET /api/devices answered
\* 500 INTERNAL_ERROR
C19_Witness ==
    \E p \in Procs :
      LET T == Trace(p) IN
      /\ Answered(p)
      /\ proc[p].req.route = "GET /api/devices"
      /\ ticks > 0
      /\ proc[p].result = Return(jsonError("INTERNAL_ERROR", 500))
      /\ \E i \in CallsOf(T, "getAccessToken") :
           /\ RefreshFailedIn(T, i)
           /\ ~AtTheGate(T, i)
           /\ \E g \in CallsOf(T, "getAccessToken") :
                /\ g < i
                /\ AtTheGate(T, g)
                /\ T[EndOf(T, g, "getAccessToken")].out # Return(0)

\* ----------------------------------------------------------------- C20
\* the bodies of POST /api/transfer that carry no string deviceId: an object
\* without deviceId, one whose deviceId is not a string, and the JSON value
\* null
NoStringDeviceId == {"no deviceId", "non-string deviceId", "null"}

\* what requireAuth returned to the request logged in T
GateResult(T) ==
    LET i == Least(CallsOf(T, "requireAuth")) IN T[EndOf(T, i, "requireAuth")].out

\* C20, as stated: a POST /api/transfer request whose body has a missing or
\* non-string deviceId is answered 400 INVALID_REQUEST, and no request to the
\* token endpoint or to the resource API has been made for it.
C20_AsStated ==
    \A p \in Procs :
      LET T == Trace(p) IN
      (/\ Answered(p)
       /\ proc[p].req.route = "POST /api/transfer"
       /\ proc[p].req.body \in NoStringDeviceId) =>
        /\ proc[p].result = Return(jsonError("INVALID_REQUEST", 400))
        /\ Events(T, 1, Len(T), "tokenReq") = {}
        /\ Events(T, 1, Len(T), "apiReq") = {}

\* C20, what the code guarantees instead: for such a request no resource API
\* request is made, and the token endpoint is called at most once, by the
\* getAccessToken of requireAuth; the answer is 401 INVALID_AUTOMATION_KEY
\* when the key does not match, else the 401 of requireAuth when it refuses,
\* else 500 INTERNAL_ERROR for the body null and 400 INVALID_REQUEST for the
\* other bodies.
C20_GateThenValidate ==
    \A p \in Procs :
      LET T == Trace(p) IN
      (/\ Answered(p)
       /\ proc[p].req.route = "POST /api/transfer"
       /\ proc[p].req.body \in NoStringDeviceId) =>
        /\ Events(T, 1, Len(T), "apiReq") = {}
        /\ Cardinality(Events(T, 1, Len(T), "tokenReq")) <= 1
        /\ \A k \in Events(T, 1, Len(T), "tokenReq") :
             \E i \in CallsOf(T, "requireAuth") :
               i < k /\ k < EndOf(T, i, "requireAuth")
        /\ proc[p].result =
             Return(IF ~checkAutomationKey(proc[p].req)
                    THEN jsonError("INVALID_AUTOMATION_KEY", 401)
                    ELSE IF GateResult(T).val # NULL THEN GateResult(T).val
                    ELSE IF proc[p].req.body = "null"
                    THEN jsonError("INTERNAL_ERROR", 500)
                    ELSE jsonError("INVALID_REQUEST", 400))

\* a POST /api/transfer without deviceId was answered 400 INVALID_REQUEST
\* after requireAuth had refreshed the stored credential at the token endpoint
C20_Witness ==
    \E p \in Procs :
      LET T == Trace(p) IN
      /\ Answered(p)
      /\ proc[p].req.route = "POST /api/transfer"
      /\ proc[p].req.body = "no deviceId"
      /\ proc[p].result = Return(jsonError("INVALID_REQUEST", 400))
      /\ Events(T, 1, Len(T), "tokenReq") # {}
      /\ Events(T, 1, Len(T), "kvput") # {}

\* a POST /api/transfer whose body is the JSON value null passed the key
\* check and requireAuth and was answered 500 INTERNAL_ERROR
C20_NullBody ==
    \E p \in Procs :
      LET T == Trace(p) IN
      /\ Answered(p)
      /\ proc[p].req.route = "POST /api/transfer"
      /\ proc[p].req.body = "null"
      /\ checkAutomationKey(proc[p].req)
      /\ GateResult(T) = Return(NULL)
      /\ proc[p].result = Return(jsonError("INTERNAL_ERROR", 500))

\* ----------------------------------------------------------------- C21
\* a response that reports a failure: any status outside 200..299
IsFailure(response) == ~ResponseOk(response)

\* C21: for every request to a path under /api and every outcome of the
\* store, the token endpoint and the resource API, handleRequest ends by
\* returning a response, never by an exception, and every response that
\* reports a failure carries the JSON error body with a code.
C21_AlwaysAResponse ==
    \A p \in Procs :
      Answered(p) =>
        /\ proc[p].result.kind = "return"
        /\ IsFailure(proc[p].result.val) =>
             /\ proc[p].result.val.body = "error"
             /\ proc[p].result.val.code # "none"

\* a request passed the gate, the resource API was unreachable, spotifyFetch
\* threw, and the request was answered 500 INTERNAL_ERROR with the JSON error
\* body
C21_Witness ==
    \E p \in Procs :
      LET T == Trace(p) IN
      /\ Answered(p)
      /\ proc[p].result = Return(jsonError("INTERNAL_ERROR", 500))
      /\ \E i \in DOMAIN T : IsRet(T, i, "spotifyFetch") /\ T[i].out.kind = "throw"
      /\ \E i \in DOMAIN T : T[i].e = "apiResp" /\ T[i].out.kind = "throw"

\* ----------------------------------------------------------------- C22
\* the request of p carries no X-Automation-Key equal to AUTOMATION_KEY
WrongKey(p) ==
    /\ proc[p].op = "handleRequest"
    /\ proc[p].req.method # "OPTIONS"
    /\ proc[p].req.key # env.AUTOMATION_KEY

\* C22: for every non-OPTIONS request to a path under /api whose
\* X-Automation-Key is missing or differs from AUTOMATION_KEY, the response
\* is 401 INVALID_AUTOMATION_KEY and no store read, store write, token
\* endpoint call or resource API call is made for that request.
C22_KeyCheckFirst ==
    \A p \in Procs :
      LET T == Trace(p) IN
      WrongKey(p) =>
        /\ Answered(p)
        /\ proc[p].result = Return(jsonError("INVALID_AUTOMATION_KEY", 401))
        /\ \A i \in DOMAIN T : T[i].e \in {"call", "ret"}
        /\ \A i \in DOMAIN T : T[i].fn = "handleRequest"

\* a POST /api/transfer with a well-formed body and a key that differs from
\* AUTOMATION_KEY was answered 401 INVALID_AUTOMATION_KEY while the store
\* holds a credential
C22_Witness ==
    \E p \in Procs :
      /\ WrongKey(p)
      /\ Answered(p)
      /\ proc[p].req.key # 0
      /\ proc[p].req.route = "POST /api/transfer"
      /\ proc[p].req.body = "valid"
      /\ kv # NULL
      /\ proc[p].result = Return(jsonError("INVALID_AUTOMATION_KEY", 401))
      /\ Len(Trace(p)) = 2

\* ----------------------------------------------------------------- C23
\* two characters are the same letter, whatever their case
SameLetter(c, d) ==
    \/ c = d
    \/ {c, d} \in {{"E", "e"}, {"C", "c"}, {"H", "h"}, {"O", "o"}, {"D", "d"},
                   {"T", "t"}}

\* word occurs in name, ignoring case
Occurs(word, name) ==
    \E k \in 1..Len(name) :
      /\ k + Len(word) - 1 <= Len(name)
      /\ \A j \in 1..Len(word) : SameLetter(name[k + j - 1], word[j])

EchoOrDot(name) ==
    Occurs(<<"e", "c", "h", "o">>, name) \/ Occurs(<<"d", "o", "t">>, name)

\* the places of the listed devices with 'echo' or 'dot' in the name
MatchesIn(devices) == {k \in DOMAIN devices : EchoOrDot(devices[k])}

\* the device lists POST /api/transfer/echo has received
DeviceListings(T) ==
    {i \in DOMAIN T : T[i].e = "devices" /\ T[i].kind = "devices"}

\* C23: POST /api/transfer/echo issues the playback-transfer request only
\* when exactly one listed device has 'echo' or 'dot' in its name, whatever
\* the case; with no match it answers 404 NO_ECHO_DEVICE and with more than
\* one match 409 MULTIPLE_ECHO_DEVICES listing the matches, in both cases
\* without any transfer request.
C23_ExactlyOneEcho ==
    \A p \in Procs :
      LET T == Trace(p) IN
      /\ proc[p].op = "handleRequest" =>
           \A i \in CallsOf(T, "retryTransfer") :
             proc[p].req.route = "POST /api/transfer/echo" =>
               \E d \in DeviceListings(T) :
                 d < i /\ Cardinality(MatchesIn(T[d].devices)) = 1
      /\ \A d \in DeviceListings(T) :
           LET M == MatchesIn(T[d].devices) IN
           /\ Cardinality(M) = 0 =>
                /\ Answered(p)
                /\ proc[p].result = Return(jsonError("NO_ECHO_DEVICE", 404))
                /\ Events(T, d, Len(T), "apiReq") = {}
           /\ Cardinality(M) > 1 =>
                /\ Answered(p)
                /\ proc[p].result.val.status = 409
                /\ proc[p].result.val.code = "MULTIPLE_ECHO_DEVICES"
                /\ Len(proc[p].result.val.devices) = Cardinality(M)
                /\ \A k \in M :
                     \E j \in DOMAIN proc[p].result.val.devices :
                       proc[p].result.val.devices[j] = T[d].devices[k]
                /\ Events(T, d, Len(T), "apiReq") = {}
           /\ Cardinality(M) = 1 => CallsOf(T, "retryTransfer") # {}

\* of three listed devices two matched, one by 'DOT' and one by 'Echo', and
\* the answer was 409 MULTIPLE_ECHO_DEVICES with no transfer request
C23_Witness ==
    \E p \in Procs :
      LET T == Trace(p) IN
      /\ Answered(p)
      /\ proc[p].result.val.status = 409
      /\ \E d \in DeviceListings(T) :
           /\ Len(T[d].devices) = 3
           /\ Cardinality(MatchesIn(T[d].devices)) = 2
           /\ Events(T, d, Len(T), "apiReq") = {}
      /\ CallsOf(T, "retryTransfer") = {}

\* one of two listed devices matched by 'DOT', and the transfer request was
\* issued and answered
C23_WitnessTransfer ==
    \E p \in Procs :
      LET T == Trace(p) IN
      /\ Answered(p)
      /\ proc[p].result = Return(jsonSuccess)
      /\ \E d \in DeviceListings(T) :
           /\ Len(T[d].devices) = 2
           /\ Cardinality(MatchesIn(T[d].devices)) = 1
           /\ Events(T, d, Len(T), "apiReq") # {}

\* ----------------------------------------------------------------- C24
\* the store reads of readTokens itself
OwnReads(T) == {k \in DOMAIN T : T[k].e = "kvget" /\ T[k].fn = "readTokens"}

IsRecord(d) == d # NULL /\ d # Garbled

\* the stored object has the three fields, whatever their values
HasAllFields(d) ==
    /\ JSONparse(d).access_token # UNDEFINED
    /\ JSONparse(d).refresh_token # UNDEFINED
    /\ JSONparse(d).expires_at # UNDEFINED

\* the stored object has the three fields and none of them is an empty
\* string or the number 0
HasAllFieldsSet(d) ==
    /\ JSONparse(d).access_token \notin {UNDEFINED, 0}
    /\ JSONparse(d).refresh_token \notin {UNDEFINED, 0}
    /\ JSONparse(d).expires_at \notin {UNDEFINED, 0}

HoldsCredential(blob) == readTokens(blob) # NULL

\* C26: once the store holds a credential, no step of the core
\* (getAccessToken, spotifyFetch, refreshes and logins, successful or failed)
\* makes the stored credential absent again: every write replaces the record
\* by a complete credential and nothing deletes it.
C26_NeverAbsentAgain ==
    [][HoldsCredential(kv) => HoldsCredential(kv')]_vars

\* the stored credential has been replaced by a login and the store still
\* holds a credential
C26_Witness ==
    \E p \in Procs :
      LET T == Trace(p) IN
      /\ proc[p].op = "handleCallback"
      /\ proc[p].pc = "done"
      /\ proc[p].result = Return(htmlResponse(200))
      /\ \E w \in Events(T, 1, Len(T), "kvput") :
           /\ HoldsCredential(T[w].before)
           /\ T[w].before # kv
      /\ HoldsCredential(kv)

\* ----------------------------------------------------------------- C28
\* C28: starting from an empty store or a complete stored credential, in
\* every reachable state after any sequence of login callbacks, proactive
\* refreshes and 401-triggered refreshes, successful or failed, whatever the
\* token endpoint omits, a credential present in the store has a non-empty
\* refresh_token and a non-empty access_token.
C28_TokensNeverDropped ==
    kv # NULL =>
      /\ ~Falsy(JSONparse(kv).refresh_token)
      /\ ~Falsy(JSONparse(kv).access_token)

\* a refresh whose response carried no refresh_token has been stored: the
\* record holds the new access token and the refresh token stored before
C28_Witness ==
    \E p \in Procs :
      LET T == Trace(p) IN
      /\ proc[p].pc = "done"
      /\ \E w \in Events(T, 1, Len(T), "kvput") :
           /\ kv = JSONstringify(T[w].tokens)
           /\ T[w].before # NULL
           /\ T[w].tokens.refresh_token = JSONparse(T[w].before).refresh_token
           /\ T[w].tokens.access_token # JSONparse(T[w].before).access_token
           /\ \E k \in Events(T, 1, w, "tokenResp") :
                T[k].ok /\ T[k].data.refresh_token = 0

\* ----------------------------------------------------------------- C27
\* the getAccessToken call that follows the one logged at i
NextCall(T, i) == Least({k \in CallsOf(T, "getAccessToken") : k > i})

HasNextCall(T, i) == {k \in CallsOf(T, "getAccessToken") : k > i} # {}

\* C27: a refresh failure is never sticky. After a getAccessToken call
\* whose refresh failed the stored credential is still the stale one the
\* call read; the next call, reading it, attempts the refresh again with the
\* same refresh token; and when that refresh brings an access token and the
\* store takes the write, the call has persisted the new credential and
\* returns the new access token.
C27_FailureNotSticky ==
    \A p \in Procs :
      LET T == Trace(p) IN
      \A i \in CallsOf(T, "getAccessToken") :
        RefreshFailedIn(T, i) =>
          LET stale == T[i + 1].val
              j == EndOf(T, i, "getAccessToken")
          IN
          /\ Events(T, i, j, "kvput") = {}
          /\ (~HasNextCall(T, i)) => kv = JSONstringify(stale)
          /\ HasNextCall(T, i) =>
               LET n == NextCall(T, i)
                   m == EndOf(T, n, "getAccessToken")
               IN
               /\ \A k \in Events(T, n, m, "kvget") :
                    (T[k].fn = "getAccessToken" /\ T[k].val # NULL) =>
                      /\ T[k].val = stale
                      /\ \E q \in Events(T, k, m, "tokenReq") :
                           T[q].refresh_token = stale.refresh_token
               /\ \A w \in Events(T, n, m, "kvput") :
                    /\ T[w].before = JSONstringify(stale)
                    /\ T[w].tokens.access_token # stale.access_token
                    /\ \E q \in Events(T, n, w, "tokenResp") :
                         T[q].ok /\ T[q].data.access_token = T[w].tokens.access_token
                    /\ IsRet(T, m, "getAccessToken") =>
                         T[m].out = Return(T[w].tokens.access_token)
               /\ (IsRet(T, m, "getAccessToken") /\ T[m].out # Return(0)) =>
                    Events(T, n, m, "kvput") # {}

\* two calls: the refresh of the first failed, the second refreshed with the
\* same refresh token, stored the new credential and returned the new access
\* token
C27_Witness ==
    \E p \in Procs :
      LET T == Trace(p) IN
      /\ proc[p].pc = "done"
      /\ \E i \in CallsOf(T, "getAccessToken") :
           /\ RefreshFailedIn(T, i)
           /\ HasNextCall(T, i)
           /\ LET n == NextCall(T, i)
                  m == EndOf(T, n, "getAccessToken")
              IN  /\ IsRet(T, m, "getAccessToken")
                  /\ T[m].out # Return(0)
                  /\ \E w \in Events(T, n, m, "kvput") :
                       /\ kv = JSONstringify(T[w].tokens)
                       /\ T[m].out = Return(T[w].tokens.access_token)
                       /\ T[w].tokens.access_token # T[i + 1].val.access_token

\* ----------------------------------------------------------------- C29
\* the events of one kind in the set S of places of the log
OfKind(T, S, kind) == {k \in S : T[k].e = kind}

\* the places of S after k up to the first completion of makeRequest
WithinAttempt(S, k, rets) ==
    {a \in S : k < a /\ \A r \in rets : k < r => a < r}

\* C29: one playback transfer, retryTransfer around spotifyFetch, issues at
\* most 6 requests to the resource API and at most 6 refresh calls to the
\* token endpoint, and each attempt at most 2 of either.
C29_AtMostSixEach ==
    \A p \in Procs :
      LET T == Trace(p) IN
      \A i \in CallsOf(T, "retryTransfer") :
        LET span == i..EndOf(T, i, "retryTransfer")
            api == OfKind(T, span, "apiReq")
            tok == OfKind(T, span, "tokenReq")
            att == {k \in span : IsCall(T, k, "makeRequest")}
            rets == {k \in span : IsRet(T, k, "makeRequest")}
        IN  /\ Cardinality(api) <= 6
            /\ Cardinality(tok) <= 6
            /\ Cardinality(att) <= 3
            /\ \A k \in att :
                 /\ Cardinality(WithinAttempt(api, k, rets)) <= 2
                 /\ Cardinality(WithinAttempt(tok, k, rets)) <= 2

\* a transfer that ended after 6 resource API requests and 6 token endpoint
\* calls
C29_Witness ==
    \E p \in Procs :
      LET T == Trace(p) IN
      /\ proc[p].pc = "done"
      /\ \E i \in CallsOf(T, "retryTransfer") :
           LET span == i..EndOf(T, i, "retryTransfer") IN
           /\ IsRet(T, EndOf(T, i, "retryTransfer"), "retryTransfer")
           /\ Cardinality(OfKind(T, span, "apiReq")) = 6
           /\ Cardinality(OfKind(T, span, "tokenReq")) = 6

\* ----------------------------------------------------------------- C30
\* both racers refreshed, and the token endpoint rotated the refresh token
\* for both
BothRotated(p, q) ==
    /\ p # q
    /\ RaceRefreshed(p) /\ RaceRefreshed(q)
    /\ RaceIssued(p).refresh_token # 0
    /\ RaceIssued(q).refresh_token # 0

\* the refresh token the token endpoint issued most recently to p or q
LatestRefreshToken(p, q) ==
    IF RaceIssued(p).refresh_token > RaceIssued(q).refresh_token
    THEN RaceIssued(p).refresh_token
    ELSE RaceIssued(q).refresh_token

\* C30 as stated: when the token endpoint rotates refresh tokens and two
\* requests refresh concurrently, then once both have finished the store
\* holds the refresh token the token endpoint issued most recently; an older
\* refresh token never replaces a newer one.
C30_AsStated ==
    \A p, q \in Racers :
      BothRotated(p, q) =>
        readTokens(kv).refresh_token = LatestRefreshToken(p, q)

\* C30, what the code does instead: once both have finished the store holds
\* the refresh token issued to the racer that wrote last, whichever of the
\* two was issued first.
C30_LastWrittenStays ==
    \A p, q \in Racers :
      BothRotated(p, q) =>
        \E w \in {p, q} :
          LET o == CHOOSE x \in {p, q} : x # w IN
          /\ WroteLast(w, o)
          /\ readTokens(kv).refresh_token = RaceIssued(w).refresh_token
          /\ RaceWrite(w).before = JSONstringify(RaceWrite(o).tokens)
          /\ RaceWrite(o).tokens.refresh_token = RaceIssued(o).refresh_token

\* both racers were issued a new refresh token; the racer issued the older
\* one wrote last, and the store holds the older refresh token
C30_Witness ==
    \E w, o \in Racers :
      /\ BothRotated(w, o)
      /\ WroteLast(w, o)
      /\ RaceIssued(w).refresh_token < RaceIssued(o).refresh_token
      /\ RaceWrite(o).tokens.refresh_token = RaceIssued(o).refresh_token
      /\ readTokens(kv).refresh_token = RaceIssued(w).refresh_token
      /\ readTokens(kv).refresh_token # LatestRefreshToken(w, o)

====
